---- MODULE Spec2Model ----
(***************************************************************************)
(* One peer of the two-player Pong game: its GameManager, its Game (with   *)
(* Ball and Paddle objects), the SyncService reconciliation test and the   *)
(* browser timers the Game arms.  The remote peer and the transport are    *)
(* the environment: they deliver GAME_STATE / GAME_CONTROL / PADDLE_MOVE   *)
(* messages in any order, any number of times, or not at all, and change   *)
(* the connection status.                                                  *)
(*                                                                         *)
(* Time is counted in fixed ticks (TicksPerSecond per second instead of    *)
(* the program's 120), positions in whole pixels.  Math.random() is a      *)
(* Boolean choice of the serving side; the vertical serve jitter is 0.     *)
(* Power-ups, turbo mode and paddle resizing are switched off, and the     *)
(* latency pings of SyncService are left out.                              *)
(*                                                                         *)
(* Three parts of the program are followed on their own variables: the     *)
(* SyncService throttle and buffers (with a clock), the GameLoop and its   *)
(* animation-frame requests, and the speed scaling of one ball over a      *)
(* rally (in units of 1/100000, the random part in units of 1/1000).       *)
(* Two more follow handlers of the manager in a setting of their own: a    *)
(* host and a client joined by a FIFO transport for GAME_CONTROL messages  *)
(* (session), and one Game's countdown against a clock that decides when   *)
(* its timer is due (race).                                                *)
(***************************************************************************)
EXTENDS Integers, Sequences, FiniteSets, TLC

\* ------------------------------------------------------------------ bounds
TicksPerSecond == 2
MaxTimestamp == 2
WinningScore == 1
\* how far below 0 the countdown value is followed
MaxOvershoot == 1
\* the parts of a fixed step in which frame times and the accumulator are counted
StepParts == 2
\* the clock units that make the 16 ms of syncInterval, and the last clock value
SyncInterval == 2
MaxClock == 5
\* the messages one buffer of SyncService receives
MaxArrivals == 12
\* the animation frames one run requests
MaxFrames == 6
\* how far a paddle's consecutive hits are followed
MaxHits == 2
\* the paddle hits of one rally, and the steps in which the random part of
\* the speed increase is drawn from [0, 0.2)
MaxRally == 8
JitterSteps == 2
\* how many applications of one control action by the host are counted
MaxApplied == 3

\* ------------------------------------------------------- program constants
FieldWidth == 800
FieldHeight == 600
BallRadius == 10
BallSpeed == 400
PaddleSpeed == 500
PaddleHeight == 80
PaddleWidth == 12
LeftPaddleX == 30
RightPaddleInset == 30
InitialCountdown == 3
ReconciliationThreshold == 10
ForcedCountdownSeconds == 2
MaxSteps == 5
\* the 0.1 s cap of a frame's time, in fixed steps of 1/120 s
CappedDeltaSteps == 12
BufferLimit == 10
\* speedScaleFactor is counted in 1/100000; the random part in 1/1000
ScaleUnit == 100000
MaxSpeedScale == 220000
HitSpeedIncrement == 8000
JitterUnit == 1000
JitterRange == 200
SpeedUpPercent == 130
SpeedUpLimit == 250000

WAITING == "WAITING_FOR_OPPONENT"
COUNTDOWN == "COUNTDOWN"
PLAYING == "PLAYING"
PAUSED == "PAUSED"
GAME_OVER == "GAME_OVER"
GameStatus == {WAITING, COUNTDOWN, PLAYING, PAUSED, GAME_OVER}

HOST == "HOST"
CLIENT == "CLIENT"

DISCONNECTED == "DISCONNECTED"
CONNECTING == "CONNECTING"
CONNECTED == "CONNECTED"
ERROR == "ERROR"
ConnectionStatus == {DISCONNECTED, CONNECTING, CONNECTED, ERROR}

START == "START"
PAUSE == "PAUSE"
RESUME == "RESUME"
RESTART == "RESTART"
GameControlAction == {START, PAUSE, RESUME, RESTART}

GAME_STATE == "GAME_STATE"
PADDLE_MOVE == "PADDLE_MOVE"
GAME_CONTROL == "GAME_CONTROL"
PING == "PING"

NoWinner == "null"
NoHandle == "null"
FiredHandle == "fired"
NoControl == [action |-> "null", timestamp |-> 0]
NoEvent == [type |-> "none"]

\* ----------------------------------------------------------------- helpers
Min(a, b) == IF a < b THEN a ELSE b
Max(a, b) == IF a > b THEN a ELSE b
Abs(a) == IF a < 0 THEN -a ELSE a

\* v * fixedTimeStep, rounded toward zero
PerTick(v) == IF v >= 0 THEN v \div TicksPerSecond ELSE -((-v) \div TicksPerSecond)

Vec(x, y) == [x |-> x, y |-> y]
Center == Vec(FieldWidth \div 2, FieldHeight \div 2)
RightPaddleX == FieldWidth - RightPaddleInset

\* ------------------------------------------------------------------- Ball
NewBall(position, velocity) == [position |-> position, velocity |-> velocity]

BallUpdate(b) ==
    [b EXCEPT !.position = Vec(b.position.x + PerTick(b.velocity.x),
                               b.position.y + PerTick(b.velocity.y))]

\* Ball.reset with resetSpeed = true: the speed is renormalised to baseSpeed.
\* The serve velocities of the model are horizontal, so the direction is kept
\* and the magnitude is baseSpeed.
BallReset(position, velocity) ==
    NewBall(position,
            Vec(IF velocity.x > 0 THEN BallSpeed
                ELSE IF velocity.x < 0 THEN -BallSpeed ELSE 0,
                velocity.y))

BallSetState(b, state) ==
    [b EXCEPT !.position = state.position, !.velocity = state.velocity]

BallGetState(b) == [position |-> b.position, velocity |-> b.velocity]

checkScoringBoundary(b, boundaryLeft, boundaryRight) ==
    IF b.position.x - BallRadius <= boundaryLeft THEN "left"
    ELSE IF b.position.x + BallRadius >= boundaryRight THEN "right"
    ELSE "none"

checkBoundaryCollision(b, boundaryTop, boundaryBottom) ==
    LET nextY == b.position.y + b.velocity.y IN
    IF nextY - BallRadius <= boundaryTop
    THEN [b EXCEPT !.velocity.y = Abs(b.velocity.y),
                   !.position.y = boundaryTop + BallRadius]
    ELSE IF nextY + BallRadius >= boundaryBottom
    THEN [b EXCEPT !.velocity.y = -Abs(b.velocity.y),
                   !.position.y = boundaryBottom - BallRadius]
    ELSE b

\* closest-point-on-rectangle test, then the horizontal reversal of
\* handlePaddleCollision (a centred hit: bounce angle 0)
checkPaddleCollision(b, paddle, isLeftPaddle) ==
    LET paddleLeft == IF isLeftPaddle THEN paddle.position.x
                      ELSE paddle.position.x - PaddleWidth
        paddleRight == IF isLeftPaddle THEN paddle.position.x + PaddleWidth
                       ELSE paddle.position.x
        paddleTop == paddle.position.y - PaddleHeight \div 2
        paddleBottom == paddle.position.y + PaddleHeight \div 2
        closestX == Max(paddleLeft, Min(b.position.x, paddleRight))
        closestY == Max(paddleTop, Min(b.position.y, paddleBottom))
        distanceX == b.position.x - closestX
        distanceY == b.position.y - closestY
    IN  IF distanceX * distanceX + distanceY * distanceY <= BallRadius * BallRadius
        THEN [b EXCEPT !.velocity.x = IF isLeftPaddle THEN Abs(b.velocity.x)
                                      ELSE -Abs(b.velocity.x)]
        ELSE b

\* the value Ball.checkPaddleCollision returns
Collides(b, paddle, isLeftPaddle) ==
    checkPaddleCollision([b EXCEPT !.velocity.x = IF isLeftPaddle THEN -1 ELSE 1],
                         paddle, isLeftPaddle).velocity.x = (IF isLeftPaddle THEN 1 ELSE -1)

\* ----------------------------------------------------------------- Paddle
PaddleMinY == 0
PaddleMaxY == FieldHeight

ClampY(y) == Max(PaddleMinY + PaddleHeight \div 2,
                 Min(y, PaddleMaxY - PaddleHeight \div 2))

NewPaddle(x, y) ==
    [position |-> Vec(x, y), isMovingUp |-> FALSE, isMovingDown |-> FALSE,
     isRebounding |-> FALSE]

PaddleSetPosition(p, position) ==
    [p EXCEPT !.position = Vec(position.x, ClampY(position.y))]

PaddleGetState(p) == p

\* setState: position and intent are always copied, the rebound flag only
\* when the state carries one
PaddleSetState(p, state, hasRebounding) ==
    PaddleSetPosition([p EXCEPT !.isMovingUp = state.isMovingUp,
                                !.isMovingDown = state.isMovingDown,
                                !.isRebounding = IF hasRebounding
                                                 THEN state.isRebounding ELSE @],
                      state.position)

Direction(p) == IF p.isMovingUp /\ ~p.isMovingDown THEN -1
                ELSE IF p.isMovingDown /\ ~p.isMovingUp THEN 1 ELSE 0

\* startRebound: the intent flags are reversed
startRebound(p, originalDirection) ==
    [p EXCEPT !.isRebounding = TRUE,
              !.isMovingUp = (originalDirection >= 0),
              !.isMovingDown = (originalDirection < 0)]

\* boost zones: the top and bottom 15% of the field give 1.5 x speed
updateMovement(p) ==
    LET direction == Direction(p)
        topBoostZone == PaddleMinY + ((PaddleMaxY - PaddleMinY) * 15) \div 100
        bottomBoostZone == PaddleMaxY - ((PaddleMaxY - PaddleMinY) * 15) \div 100
        boosted == \/ (p.position.y - PaddleHeight \div 2 < topBoostZone /\ direction < 0)
                   \/ (p.position.y + PaddleHeight \div 2 > bottomBoostZone /\ direction > 0)
        currentSpeed == IF boosted THEN (PaddleSpeed * 3) \div 2 ELSE PaddleSpeed
        newY == p.position.y + direction * PerTick(currentSpeed)
    IN  IF direction = 0 THEN p
        ELSE IF newY - PaddleHeight \div 2 <= PaddleMinY /\ direction < 0
        THEN startRebound(p, direction)
        ELSE IF newY + PaddleHeight \div 2 >= PaddleMaxY /\ direction > 0
        THEN startRebound(p, direction)
        ELSE [p EXCEPT !.position.y = ClampY(newY)]

\* a rebound lasts reboundDuration = 0.3 s, which one tick of the model covers
updateRebound(p) ==
    LET direction == Direction(p)
        newY == p.position.y + direction * PerTick((PaddleSpeed * 3) \div 2)
    IN  [p EXCEPT !.position.y = IF direction = 0 THEN @ ELSE ClampY(newY),
                  !.isRebounding = FALSE]

PaddleUpdate(p) == IF p.isRebounding THEN updateRebound(p) ELSE updateMovement(p)

\* ------------------------------------------------------------------- Game
TimerKinds == {"decrement", "failsafe"}
NoTimers == [k \in TimerKinds |-> 0]

DefaultConfig == [winningScore |-> WinningScore, ballSpeed |-> BallSpeed]

\* window.setTimeout / window.clearTimeout on the Game's countdownTimeout
\* handle.  timers counts the armed callbacks of each kind; a handle whose
\* callback has fired is FiredHandle, and clearing it clears nothing.
setTimeout(g, kind) ==
    [g EXCEPT !.timers[kind] = @ + 1, !.countdownTimeout = kind]

clearTimeout(g) ==
    IF g.countdownTimeout \in TimerKinds /\ g.timers[g.countdownTimeout] > 0
    THEN [g EXCEPT !.timers[g.countdownTimeout] = @ - 1]
    ELSE g

initializeGameObjects(g) ==
    [g EXCEPT
       !.ball = NewBall(Center, Vec(0, 0)),
       !.playerPaddle = NewPaddle(IF g.role = HOST THEN LeftPaddleX ELSE RightPaddleX,
                                  FieldHeight \div 2),
       !.opponentPaddle = NewPaddle(IF g.role = HOST THEN RightPaddleX ELSE LeftPaddleX,
                                    FieldHeight \div 2)]

NewGame(role) ==
    initializeGameObjects(
      [role |-> role,
       status |-> WAITING,
       playerScore |-> 0,
       opponentScore |-> 0,
       countdown |-> InitialCountdown,
       countdownTimer |-> 0,
       winner |-> NoWinner,
       ball |-> NewBall(Center, Vec(0, 0)),
       playerPaddle |-> NewPaddle(0, 0),
       opponentPaddle |-> NewPaddle(0, 0),
       additionalBalls |-> <<>>,
       consecutiveHits |-> [playerPaddle |-> 0, opponentPaddle |-> 0],
       config |-> DefaultConfig,
       countdownTimeout |-> NoHandle,
       timers |-> NoTimers,
       accumulator |-> 0])

resetBall(g, serveToLeft) ==
    [g EXCEPT
       !.ball = BallReset(Center,
                          Vec((IF serveToLeft THEN -1 ELSE 1) * g.config.ballSpeed, 0)),
       !.playerPaddle = PaddleSetPosition(@, Vec(@.position.x, FieldHeight \div 2)),
       !.opponentPaddle = PaddleSetPosition(@, Vec(@.position.x, FieldHeight \div 2)),
       !.additionalBalls = <<>>]

\* Game.startGame (private): entered when the countdown is over
GameStartGame(g, serveToLeft) ==
    LET g1 == IF g.countdownTimeout # NoHandle
              THEN [clearTimeout(g) EXCEPT !.countdownTimeout = NoHandle]
              ELSE g
    IN  IF g1.status = PLAYING THEN g1
        ELSE resetBall([g1 EXCEPT !.status = PLAYING], serveToLeft)

\* setupCountdownFailsafe arming its timer without clearing the armed one
setupCountdownFailsafe_keep(g, serveToLeft) ==
    IF g.countdown <= 0 THEN GameStartGame(g, serveToLeft)
    ELSE setTimeout(g, "failsafe")

setupCountdownFailsafe(g, serveToLeft) ==
    LET g1 == IF g.countdownTimeout # NoHandle THEN clearTimeout(g) ELSE g
    IN  IF g1.countdown <= 0 THEN GameStartGame(g1, serveToLeft)
        ELSE setTimeout(g1, "failsafe")

startCountdown(g, serveToLeft) ==
    IF g.status = PLAYING \/ g.status = COUNTDOWN THEN g
    ELSE LET g1 == IF g.countdownTimeout # NoHandle
                   THEN [clearTimeout(g) EXCEPT !.countdownTimeout = NoHandle]
                   ELSE g
             g2 == [resetBall(g1, serveToLeft) EXCEPT
                      !.countdown = InitialCountdown, !.status = COUNTDOWN]
         IN  setupCountdownFailsafe(setTimeout(g2, "decrement"), serveToLeft)

decrementCountdown(g, serveToLeft) ==
    LET g1 == [g EXCEPT !.countdown = @ - 1, !.countdownTimer = 0]
    IN  IF g1.countdown <= 0 THEN GameStartGame(g1, serveToLeft)
        ELSE setTimeout(g1, "decrement")

\* the callback armed by setupCountdownFailsafe
failsafeCallback(g, serveToLeft) ==
    setupCountdownFailsafe([g EXCEPT !.countdown = @ - 1, !.countdownTimer = 0],
                           serveToLeft)

\* the browser runs an armed callback: it is no longer armed, and a handle
\* that names it is stale
fireTimer(g, kind, serveToLeft) ==
    LET g1 == [g EXCEPT !.timers[kind] = @ - 1,
                        !.countdownTimeout = IF @ = kind THEN FiredHandle ELSE @]
    IN  IF kind = "decrement" THEN decrementCountdown(g1, serveToLeft)
        ELSE failsafeCallback(g1, serveToLeft)

GamePauseGame(g) == IF g.status = PLAYING THEN [g EXCEPT !.status = PAUSED] ELSE g

GameResumeGame(g) == IF g.status = PAUSED THEN [g EXCEPT !.status = PLAYING] ELSE g

endGame(g, winner) == [g EXCEPT !.status = GAME_OVER, !.winner = winner]

cleanup(g) ==
    IF g.countdownTimeout # NoHandle
    THEN [clearTimeout(g) EXCEPT !.countdownTimeout = NoHandle]
    ELSE g

GameRestartGame(g, serveToLeft) ==
    LET g1 == [cleanup(g) EXCEPT !.playerScore = 0, !.opponentScore = 0,
                                 !.winner = NoWinner]
        g2 == [initializeGameObjects(g1) EXCEPT !.additionalBalls = <<>>]
    IN  startCountdown(g2, serveToLeft)

setStatus(g, status) == [g EXCEPT !.status = status]

setPlayerInput(g, isUpPressed, isDownPressed) ==
    [g EXCEPT !.playerPaddle.isMovingUp = isUpPressed,
              !.playerPaddle.isMovingDown = isDownPressed]

\* Game.setOpponentInput steering the player's paddle
setOpponentInput_player(g, isUpPressed, isDownPressed) ==
    [g EXCEPT !.playerPaddle.isMovingUp = isUpPressed,
              !.playerPaddle.isMovingDown = isDownPressed]

setOpponentInput(g, isUpPressed, isDownPressed) ==
    [g EXCEPT !.opponentPaddle.isMovingUp = isUpPressed,
              !.opponentPaddle.isMovingDown = isDownPressed]

\* the optional countdown field is <<>> when absent
getState(g) ==
    [status |-> g.status,
     ball |-> BallGetState(g.ball),
     playerPaddle |-> PaddleGetState(g.playerPaddle),
     opponentPaddle |-> PaddleGetState(g.opponentPaddle),
     playerScore |-> g.playerScore,
     opponentScore |-> g.opponentScore,
     countdown |-> IF g.status = COUNTDOWN THEN <<g.countdown>> ELSE <<>>,
     winner |-> g.winner,
     config |-> g.config,
     additionalBalls |-> [i \in 1..Len(g.additionalBalls) |->
                             BallGetState(g.additionalBalls[i])],
     absent |-> {}]

\* A GameState record names in `absent` the optional fields it does not
\* carry; the value the record holds for such a field is never read.
Has(state, field) == field \notin state.absent

setState(g, state, serveToLeft) ==
    LET oldStatus == g.status
        g1 == [g EXCEPT !.status = state.status]
        g2 == IF /\ oldStatus # state.status
                 /\ oldStatus = WAITING
                 /\ state.status = PLAYING
                 /\ g1.ball.velocity.x = 0
                 /\ g1.ball.velocity.y = 0
              THEN resetBall(g1, serveToLeft)
              ELSE g1
    IN  IF state.status = COUNTDOWN /\ oldStatus # COUNTDOWN
        THEN startCountdown(g2, serveToLeft)
        ELSE LET changeCountdown == /\ state.status = COUNTDOWN
                                    /\ state.countdown # <<>>
                                    /\ g2.countdown # state.countdown[1]
             IN  [g2 EXCEPT
                    !.ball = BallSetState(@, state.ball),
                    !.playerPaddle =
                        PaddleSetState(@, state.playerPaddle,
                                       Has(state, "playerPaddle.isRebounding")),
                    !.opponentPaddle =
                        PaddleSetState(@, state.opponentPaddle,
                                       Has(state, "opponentPaddle.isRebounding")),
                    !.playerScore = state.playerScore,
                    !.opponentScore = state.opponentScore,
                    !.countdown = IF changeCountdown THEN state.countdown[1] ELSE @,
                    !.countdownTimer = IF changeCountdown THEN 0 ELSE @,
                    !.winner = IF Has(state, "winner") THEN state.winner
                               ELSE NoWinner,
                    !.config = state.config,
                    !.additionalBalls =
                        IF Has(state, "additionalBalls")
                        THEN [i \in 1..Len(state.additionalBalls) |->
                                BallSetState(NewBall(Center, Vec(0, 0)),
                                             state.additionalBalls[i])]
                        ELSE <<>>]

\* the win condition tested by > instead of >=
checkScoring_gt(g) ==
    LET scoringSide == checkScoringBoundary(g.ball, 0, FieldWidth)
        g1 == IF scoringSide = "left"
              THEN resetBall(IF g.role = HOST
                             THEN [g EXCEPT !.opponentScore = @ + 1,
                                            !.consecutiveHits.playerPaddle = 0]
                             ELSE [g EXCEPT !.playerScore = @ + 1,
                                            !.consecutiveHits.opponentPaddle = 0], FALSE)
              ELSE IF scoringSide = "right"
              THEN resetBall(IF g.role = HOST
                             THEN [g EXCEPT !.playerScore = @ + 1,
                                            !.consecutiveHits.opponentPaddle = 0]
                             ELSE [g EXCEPT !.opponentScore = @ + 1,
                                            !.consecutiveHits.playerPaddle = 0], TRUE)
              ELSE g
        NotScored(b) == checkScoringBoundary(b, 0, FieldWidth) = "none"
        g2 == [g1 EXCEPT !.additionalBalls = SelectSeq(@, NotScored)]
    IN  IF g2.playerScore > g2.config.winningScore THEN endGame(g2, "player")
        ELSE IF g2.opponentScore > g2.config.winningScore THEN endGame(g2, "opponent")
        ELSE g2

\* Game.checkScoring scoring for the side of the boundary that was crossed
checkScoring_same(g) ==
    LET scoringSide == checkScoringBoundary(g.ball, 0, FieldWidth)
        g1 == IF scoringSide = "left"
              THEN resetBall(IF g.role = HOST
                             THEN [g EXCEPT !.playerScore = @ + 1,
                                            !.consecutiveHits.playerPaddle = 0]
                             ELSE [g EXCEPT !.opponentScore = @ + 1,
                                            !.consecutiveHits.opponentPaddle = 0], FALSE)
              ELSE IF scoringSide = "right"
              THEN resetBall(IF g.role = HOST
                             THEN [g EXCEPT !.opponentScore = @ + 1,
                                            !.consecutiveHits.opponentPaddle = 0]
                             ELSE [g EXCEPT !.playerScore = @ + 1,
                                            !.consecutiveHits.playerPaddle = 0], TRUE)
              ELSE g
        NotScored(b) == checkScoringBoundary(b, 0, FieldWidth) = "none"
        g2 == [g1 EXCEPT !.additionalBalls = SelectSeq(@, NotScored)]
    IN  IF g2.playerScore >= g2.config.winningScore THEN endGame(g2, "player")
        ELSE IF g2.opponentScore >= g2.config.winningScore THEN endGame(g2, "opponent")
        ELSE g2

\* Game.checkScoring with additional balls that score as the main ball does
checkScoring_all(g) ==
    LET Side(b) == checkScoringBoundary(b, 0, FieldWidth)
        balls == <<g.ball>> \o g.additionalBalls
        scoringSide == IF \E i \in 1..Len(balls) : Side(balls[i]) = "left" THEN "left"
                       ELSE IF \E i \in 1..Len(balls) : Side(balls[i]) = "right" THEN "right"
                       ELSE "none"
        g1 == IF scoringSide = "left"
              THEN resetBall(IF g.role = HOST
                             THEN [g EXCEPT !.opponentScore = @ + 1,
                                            !.consecutiveHits.playerPaddle = 0]
                             ELSE [g EXCEPT !.playerScore = @ + 1,
                                            !.consecutiveHits.opponentPaddle = 0], FALSE)
              ELSE IF scoringSide = "right"
              THEN resetBall(IF g.role = HOST
                             THEN [g EXCEPT !.playerScore = @ + 1,
                                            !.consecutiveHits.opponentPaddle = 0]
                             ELSE [g EXCEPT !.opponentScore = @ + 1,
                                            !.consecutiveHits.playerPaddle = 0], TRUE)
              ELSE g
    IN  IF g1.playerScore >= g1.config.winningScore THEN endGame(g1, "player")
        ELSE IF g1.opponentScore >= g1.config.winningScore THEN endGame(g1, "opponent")
        ELSE g1

\* Game.checkScoring: the main ball scores for the side opposite to the
\* boundary it crossed, additional balls are only removed
checkScoring(g) ==
    LET scoringSide == checkScoringBoundary(g.ball, 0, FieldWidth)
        g1 == IF scoringSide = "left"
              THEN resetBall(IF g.role = HOST
                             THEN [g EXCEPT !.opponentScore = @ + 1,
                                            !.consecutiveHits.playerPaddle = 0]
                             ELSE [g EXCEPT !.playerScore = @ + 1,
                                            !.consecutiveHits.opponentPaddle = 0], FALSE)
              ELSE IF scoringSide = "right"
              THEN resetBall(IF g.role = HOST
                             THEN [g EXCEPT !.playerScore = @ + 1,
                                            !.consecutiveHits.opponentPaddle = 0]
                             ELSE [g EXCEPT !.opponentScore = @ + 1,
                                            !.consecutiveHits.playerPaddle = 0], TRUE)
              ELSE g
        NotScored(b) == checkScoringBoundary(b, 0, FieldWidth) = "none"
        g2 == [g1 EXCEPT !.additionalBalls = SelectSeq(@, NotScored)]
    IN  IF g2.playerScore >= g2.config.winningScore THEN endGame(g2, "player")
        ELSE IF g2.opponentScore >= g2.config.winningScore THEN endGame(g2, "opponent")
        ELSE g2

\* each collision is followed by recordHit on the paddle that was hit
checkPaddleCollisions(g) ==
    LET Hit(b) == checkPaddleCollision(
                     checkPaddleCollision(b, g.playerPaddle, g.role = HOST),
                     g.opponentPaddle, g.role # HOST)
        balls == <<g.ball>> \o g.additionalBalls
        playerHits == Cardinality({i \in 1..Len(balls) :
                                     Collides(balls[i], g.playerPaddle, g.role = HOST)})
        opponentHits == Cardinality({i \in 1..Len(balls) :
                                       Collides(balls[i], g.opponentPaddle, g.role # HOST)})
    IN  [g EXCEPT !.ball = Hit(@),
                  !.additionalBalls = [i \in 1..Len(@) |-> Hit(@[i])],
                  !.consecutiveHits.playerPaddle = @ + playerHits,
                  !.consecutiveHits.opponentPaddle = @ + opponentHits]

checkBoundaryCollisions(g) ==
    [g EXCEPT !.ball = checkBoundaryCollision(@, 0, FieldHeight),
              !.additionalBalls =
                  [i \in 1..Len(@) |-> checkBoundaryCollision(@[i], 0, FieldHeight)]]

\* the countdown branch with the full second tested by > instead of >=
countdownTick_late(g, serveToLeft) ==
    LET g1 == [g EXCEPT !.countdownTimer = @ + 1]
        dec == [g1 EXCEPT !.countdown = @ - 1, !.countdownTimer = 0]
    IN  IF g1.countdownTimer > ForcedCountdownSeconds * TicksPerSecond
        THEN IF dec.countdown <= 0 THEN GameStartGame(dec, serveToLeft) ELSE dec
        ELSE LET g2 == IF g1.countdownTimer > TicksPerSecond
                       THEN IF dec.countdown <= 0
                            THEN GameStartGame(dec, serveToLeft) ELSE dec
                       ELSE g1
             IN  IF g2.countdown < 0 THEN GameStartGame(g2, serveToLeft) ELSE g2

\* the COUNTDOWN branch of Game.fixedUpdate; countdownTimer counts ticks
countdownTick(g, serveToLeft) ==
    LET g1 == [g EXCEPT !.countdownTimer = @ + 1]
        dec == [g1 EXCEPT !.countdown = @ - 1, !.countdownTimer = 0]
    IN  IF g1.countdownTimer > ForcedCountdownSeconds * TicksPerSecond
        THEN IF dec.countdown <= 0 THEN GameStartGame(dec, serveToLeft) ELSE dec
        ELSE LET g2 == IF g1.countdownTimer >= TicksPerSecond
                       THEN IF dec.countdown <= 0
                            THEN GameStartGame(dec, serveToLeft) ELSE dec
                       ELSE g1
             IN  IF g2.countdown < 0 THEN GameStartGame(g2, serveToLeft) ELSE g2

\* the PLAYING branch of Game.fixedUpdate (power-ups, turbo mode and paddle
\* shrinking are switched off in the modelled configuration)
beforeScoring(g) ==
    LET g1 == [g EXCEPT !.playerPaddle = PaddleUpdate(@),
                        !.opponentPaddle = PaddleUpdate(@),
                        !.ball = BallUpdate(@),
                        !.additionalBalls = [i \in 1..Len(@) |-> BallUpdate(@[i])]]
    IN  checkBoundaryCollisions(checkPaddleCollisions(g1))

playingTick(g) == checkScoring(beforeScoring(g))

fixedUpdate(g, serveToLeft) ==
    IF g.status = WAITING \/ g.status = GAME_OVER THEN g
    ELSE IF g.status = COUNTDOWN THEN countdownTick(g, serveToLeft)
    ELSE IF g.status = PAUSED THEN g
    ELSE playingTick(g)

\* Game.update keeping the time left over after the last of its ticks
gameUpdate_keep(g, elapsed, serveToLeft) ==
    LET cappedDeltaTime == Min(elapsed, CappedDeltaSteps * StepParts)
        accumulated == g.accumulator + cappedDeltaTime
        steps == Min(accumulated \div StepParts, MaxSteps)
        ticked[n \in 0..MaxSteps] ==
            IF n = 0 THEN g ELSE fixedUpdate(ticked[n - 1], serveToLeft)
        rest == accumulated - steps * StepParts
    IN  [game |-> [ticked[steps] EXCEPT !.accumulator = rest],
         steps |-> steps]

\* Game.update with the time since the last call given in parts of a fixed
\* step (the first call, which only records the time, is a call with 0
\* elapsed); steps is the number of fixed ticks the call ran
gameUpdate(g, elapsed, serveToLeft) ==
    LET cappedDeltaTime == Min(elapsed, CappedDeltaSteps * StepParts)
        accumulated == g.accumulator + cappedDeltaTime
        steps == Min(accumulated \div StepParts, MaxSteps)
        ticked[n \in 0..MaxSteps] ==
            IF n = 0 THEN g ELSE fixedUpdate(ticked[n - 1], serveToLeft)
        rest == accumulated - steps * StepParts
    IN  [game |-> [ticked[steps] EXCEPT !.accumulator =
                       IF steps >= MaxSteps /\ rest >= StepParts THEN 0 ELSE rest],
         steps |-> steps]

\* the three comparisons with >= instead of >
needsReconciliation_ge(localState, remoteState) ==
    LET dx == localState.ball.position.x - remoteState.ball.position.x
        dy == localState.ball.position.y - remoteState.ball.position.y
        ballDiffSquared == dx * dx + dy * dy
        playerPaddleDiff == Abs(localState.playerPaddle.position.y
                                - remoteState.playerPaddle.position.y)
        opponentPaddleDiff == Abs(localState.opponentPaddle.position.y
                                  - remoteState.opponentPaddle.position.y)
    IN  \/ ballDiffSquared >= ReconciliationThreshold * ReconciliationThreshold
        \/ playerPaddleDiff >= ReconciliationThreshold
        \/ opponentPaddleDiff >= ReconciliationThreshold

\* ------------------------------------------------------------ SyncService
\* Math.sqrt(dx^2 + dy^2) > threshold; the square root is monotonic and
\* sqrt(threshold^2) is exactly threshold
needsReconciliation(localState, remoteState) ==
    LET dx == localState.ball.position.x - remoteState.ball.position.x
        dy == localState.ball.position.y - remoteState.ball.position.y
        ballDiffSquared == dx * dx + dy * dy
        playerPaddleDiff == Abs(localState.playerPaddle.position.y
                                - remoteState.playerPaddle.position.y)
        opponentPaddleDiff == Abs(localState.opponentPaddle.position.y
                                  - remoteState.opponentPaddle.position.y)
    IN  \/ ballDiffSquared > ReconciliationThreshold * ReconciliationThreshold
        \/ playerPaddleDiff > ReconciliationThreshold
        \/ opponentPaddleDiff > ReconciliationThreshold

\* ------------------------------------------------------------ GameManager
VARIABLES
    game,                      \* the Game object, with the timers it armed
    isHost,
    isNetworkGame,
    connectionStatus,          \* webRTCService.getConnectionStatus()
    lastProcessedGameControl,
    isStarting,                \* TRUE while its 2000 ms reset timer is armed
    inputState,
    gameLoopRunning,           \* GameLoop.isRunning
    lastAppliedSnapshot,       \* history: the host timestamp of the snapshot applied last, 0 if none
    sent,                      \* messages handed to the transport by the running handler
    event                      \* the handler the event loop is running, with the state before it

\* the objects that are modelled on their own, with the calls made on them
VARIABLES
    syncService,               \* SyncService: lastSyncTime, stateBuffer, inputBuffer
    now,                       \* the time the callers pass as timestamp
    syncLog,                   \* history: the last successful send, what each buffer was given
    syncCall,                  \* history: the last call on SyncService, with the object before it
    gameLoop,                  \* GameLoop, the browser's pending animation frames and the running callback
    loopCall,                  \* history: the last step of GameLoop, with the object before it
    rally,                     \* the main Ball's hitCounter and speedScaleFactor
    rallyCall,                 \* history: the last call that set them, and the factor after the last hit
    session,                   \* a host and a client joined by the transport, and the control messages in flight
    race                       \* a Game in its countdown, the time since it began and the time its timer is due

components == <<syncService, now, syncLog, syncCall, gameLoop, loopCall, rally, rallyCall,
                session, race>>

vars == <<game, isHost, isNetworkGame, connectionStatus, lastProcessedGameControl,
          isStarting, inputState, gameLoopRunning, lastAppliedSnapshot, sent, event,
          components>>

manager == <<game, isHost, isNetworkGame, connectionStatus, lastProcessedGameControl,
             isStarting, inputState, gameLoopRunning, lastAppliedSnapshot, sent, event>>

\* the program state as one record, so that handlers compose
Here ==
    [game |-> game, isHost |-> isHost, isNetworkGame |-> isNetworkGame,
     connectionStatus |-> connectionStatus,
     lastProcessedGameControl |-> lastProcessedGameControl,
     isStarting |-> isStarting, inputState |-> inputState,
     gameLoopRunning |-> gameLoopRunning,
     lastAppliedSnapshot |-> lastAppliedSnapshot,
     sent |-> <<>>]

Message(type, action, up, down) ==
    [type |-> type, action |-> action, up |-> up, down |-> down]

\* a call of webRTCService.sendMessage / sendGameState: the message is
\* handed to the transport, whose delivery is not part of this model
sendMessage(st, message) == [st EXCEPT !.sent = Append(@, message)]

sendGameControl(st, action) ==
    sendMessage(st, Message(GAME_CONTROL, action, FALSE, FALSE))

\* SyncService.syncGameState holding every state back within syncInterval
syncGameState_throttled(st, throttled) ==
    LET state == getState(st.game)
    IN  IF throttled THEN st
        ELSE sendMessage(st, Message(GAME_STATE, state.status, FALSE, FALSE))

\* SyncService.syncGameState; throttled says whether less than syncInterval
\* has passed since lastSyncTime
syncGameState(st, throttled) ==
    LET state == getState(st.game)
        isImportantState == \/ state.status = COUNTDOWN
                            \/ state.status = PLAYING
                            \/ state.status = GAME_OVER
                            \/ state.countdown # <<>>
    IN  IF ~isImportantState /\ throttled THEN st
        ELSE sendMessage(st, Message(GAME_STATE, state.status, FALSE, FALSE))

syncInputState(st, throttled) ==
    IF throttled THEN st
    ELSE sendMessage(st, Message(PADDLE_MOVE, "", st.inputState.up, st.inputState.down))

ManagerStartGame(st, serveToLeft) ==
    IF st.isNetworkGame /\ st.connectionStatus # CONNECTED THEN st
    ELSE IF st.isNetworkGame /\ ~st.isHost THEN sendGameControl(st, START)
    ELSE LET st1 == [st EXCEPT !.game = startCountdown(@, serveToLeft),
                               !.gameLoopRunning = TRUE]
         IN  IF st1.isNetworkGame /\ st1.isHost THEN sendGameControl(st1, START)
             ELSE st1

\* pauseGame without the test for a client of a network game
ManagerPauseGame_local(st) ==
    LET st1 == [st EXCEPT !.game = GamePauseGame(@)]
    IN  IF st1.isNetworkGame THEN sendGameControl(st1, PAUSE) ELSE st1

ManagerPauseGame(st) ==
    IF st.isNetworkGame /\ ~st.isHost THEN sendGameControl(st, PAUSE)
    ELSE LET st1 == [st EXCEPT !.game = GamePauseGame(@)]
         IN  IF st1.isNetworkGame /\ st1.isHost THEN sendGameControl(st1, PAUSE)
             ELSE st1

ManagerResumeGame(st) ==
    IF st.isNetworkGame /\ ~st.isHost THEN sendGameControl(st, RESUME)
    ELSE LET st1 == [st EXCEPT !.game = GameResumeGame(@)]
         IN  IF st1.isNetworkGame /\ st1.isHost THEN sendGameControl(st1, RESUME)
             ELSE st1

ManagerRestartGame(st, serveToLeft) ==
    IF st.isNetworkGame /\ ~st.isHost THEN sendGameControl(st, RESTART)
    ELSE LET st1 == [st EXCEPT !.game = GameRestartGame(@, serveToLeft)]
         IN  IF st1.isNetworkGame /\ st1.isHost THEN sendGameControl(st1, RESTART)
             ELSE st1

\* the comparison of the two timestamps the other way round
IsStale_reversed(last, timestamp) ==
    /\ last.timestamp # 0
    /\ timestamp # 0
    /\ timestamp > last.timestamp

\* a timestamp is "truthy" when it is not 0
IsStale(last, timestamp) ==
    /\ last.timestamp # 0
    /\ timestamp # 0
    /\ timestamp < last.timestamp

onGameControl(st, action, timestamp, serveToLeft) ==
    IF IsStale(st.lastProcessedGameControl, timestamp) THEN st
    ELSE LET st1 == [st EXCEPT !.lastProcessedGameControl =
                                   [action |-> action, timestamp |-> timestamp]]
         IN  CASE action = START ->
                    IF ~st1.isStarting
                    THEN ManagerStartGame([st1 EXCEPT !.isStarting = TRUE], serveToLeft)
                    ELSE st1
               [] action = PAUSE -> ManagerPauseGame(st1)
               [] action = RESUME -> ManagerResumeGame(st1)
               [] action = RESTART -> ManagerRestartGame(st1, serveToLeft)

\* the soft merge: the local state with the host's ball, opponent paddle,
\* scores, status, countdown and winner
mergedState(localState, remoteState) ==
    [localState EXCEPT !.ball = remoteState.ball,
                       !.opponentPaddle = remoteState.opponentPaddle,
                       !.playerScore = remoteState.playerScore,
                       !.opponentScore = remoteState.opponentScore,
                       !.status = remoteState.status,
                       !.countdown = remoteState.countdown,
                       !.winner = remoteState.winner,
                       !.absent = (@ \ {"winner", "opponentPaddle.isRebounding"})
                                  \cup (remoteState.absent
                                        \cap {"winner", "opponentPaddle.isRebounding"})]

\* the GAME_STATE handler without the exit from WAITING_FOR_OPPONENT
onGameState_stay(st, state, serveToLeft) ==
    IF st.isHost THEN st
    ELSE LET localState == getState(st.game)
         IN  IF needsReconciliation(localState, state)
             THEN [st EXCEPT !.game = setState(@, state, serveToLeft)]
             ELSE [st EXCEPT !.game = setState(@, mergedState(localState, state),
                                               serveToLeft)]

onGameState(st, state, serveToLeft) ==
    IF st.isHost THEN st
    ELSE LET localState == getState(st.game)
             leaveWaiting == localState.status = WAITING /\ state.status # WAITING
             st1 == IF leaveWaiting
                    THEN [st EXCEPT !.game = setStatus(@, state.status),
                                    !.gameLoopRunning = TRUE]
                    ELSE st
         IN  IF needsReconciliation(localState, state)
             THEN [st1 EXCEPT !.game = setState(@, state, serveToLeft)]
             ELSE [st1 EXCEPT !.game = setState(@, mergedState(localState, state),
                                                serveToLeft)]

onPaddleMove(st, isUpPressed, isDownPressed) ==
    IF st.isHost
    THEN [st EXCEPT !.game = setOpponentInput(@, isUpPressed, isDownPressed)]
    ELSE st

onStatusChange(st, status, throttled) ==
    LET st1 == [st EXCEPT !.connectionStatus = status,
                          !.isNetworkGame = (status # DISCONNECTED)]
    IN  IF ~st1.isNetworkGame THEN [st1 EXCEPT !.game = setStatus(@, WAITING)]
        ELSE IF status = CONNECTED
        THEN IF st1.isHost THEN syncGameState(st1, throttled)
             ELSE sendMessage(st1, Message(PING, "", FALSE, FALSE))
        ELSE st1

\* GameManager.syncNetworkState with a client that sends its full state
syncNetworkState_client(st, throttled) ==
    IF ~st.isNetworkGame THEN st
    ELSE syncGameState(st, throttled)

syncNetworkState(st, throttled) ==
    IF ~st.isNetworkGame THEN st
    ELSE IF st.isHost THEN syncGameState(st, throttled)
    ELSE LET st1 == syncInputState(st, throttled)
         IN  IF st1.game.status = WAITING /\ st1.connectionStatus = CONNECTED
             THEN sendMessage(st1, Message(PING, "", FALSE, FALSE))
             ELSE st1

\* handleHostPingEvent: the host answers a ping with its state
onHostPing(st, throttled) ==
    IF st.isHost THEN syncGameState(st, throttled) ELSE st

\* handleClientPongEvent: a client still waiting asks again
onClientPong(st) ==
    IF ~st.isHost /\ st.game.status = WAITING
    THEN sendMessage(st, Message(PING, "", FALSE, FALSE))
    ELSE st

\* GameManager.update: Game.update, then the network sync
managerUpdate(st, elapsed, serveToLeft, throttled) ==
    syncNetworkState(
        [st EXCEPT !.game = gameUpdate(@, elapsed, serveToLeft).game],
        throttled)

managerSetPlayerInput(st, isUpPressed, isDownPressed) ==
    [st EXCEPT !.inputState = [up |-> isUpPressed, down |-> isDownPressed],
               !.game = setPlayerInput(@, isUpPressed, isDownPressed)]

managerCleanup(st) ==
    [st EXCEPT !.gameLoopRunning = FALSE, !.game = cleanup(@)]

\* --------------------------------------------- the countdown against time
\* A Game with the time, in ticks, since its countdown began, and the time
\* at which the timer it armed is due (<<>> when none is armed).
NoDue == <<>>

Armed(g) == \E kind \in TimerKinds : g.timers[kind] > 0

NewRace == [game |-> NewGame(HOST), time |-> 0, due |-> NoDue]

\* window.setTimeout(..., 1000): due one second after it was armed
Rearmed(g, time) == IF Armed(g) THEN <<time + TicksPerSecond>> ELSE NoDue

\* ------------------------------------------------- two peers, one transport
\* A host and a client in one network game.  Each peer is a record of the
\* GameManager state the handlers above work on; wire[r] holds the
\* GAME_CONTROL messages on their way to peer r, stamped with the sender's
\* Date.now(), which never runs backwards (clock, followed up to
\* MaxTimestamp).
Roles == {HOST, CLIENT}

Other(role) == IF role = HOST THEN CLIENT ELSE HOST

Peer(role, status) ==
    [game |-> [NewGame(role) EXCEPT
                 !.status = status,
                 !.ball.velocity = IF status \in {PLAYING, PAUSED}
                                   THEN Vec(BallSpeed, 0) ELSE @,
                 !.winner = IF status = GAME_OVER THEN "player" ELSE @,
                 !.playerScore = IF status = GAME_OVER THEN WinningScore ELSE @],
     isHost |-> (role = HOST),
     isNetworkGame |-> TRUE,
     connectionStatus |-> CONNECTED,
     lastProcessedGameControl |-> NoControl,
     isStarting |-> FALSE,
     inputState |-> [up |-> FALSE, down |-> FALSE],
     gameLoopRunning |-> (status # WAITING),
     lastAppliedSnapshot |-> 0,
     sent |-> <<>>]

Session(status) ==
    [peers |-> [role \in Roles |-> Peer(role, status)],
     wire |-> [role \in Roles |-> <<>>],
     clock |-> 1,
     user |-> "none",
     applied |-> 0]

NewSession == Session(WAITING)

IsControl(message) == message.type = GAME_CONTROL

\* the peer's handler has returned st: the transport takes the control
\* messages it sent
Transmit(s, role, st) ==
    LET controls == SelectSeq(st.sent, IsControl)
        stamped == [i \in 1..Len(controls) |->
                      [action |-> controls[i].action, timestamp |-> s.clock]]
    IN  [s EXCEPT !.peers[role] = [st EXCEPT !.sent = <<>>],
                  !.wire[Other(role)] = @ \o stamped,
                  !.clock = IF controls = <<>> THEN @ ELSE Min(@ + 1, MaxTimestamp)]

\* the public method of GameManager behind a control action
Control(st, action, serveToLeft) ==
    CASE action = START -> ManagerStartGame(st, serveToLeft)
      [] action = PAUSE -> ManagerPauseGame(st)
      [] action = RESUME -> ManagerResumeGame(st)
      [] action = RESTART -> ManagerRestartGame(st, serveToLeft)

\* the host reaches the call on its Game: it is not stale, and a START is
\* not held back by isStarting
HostApplies(st, action, timestamp) ==
    /\ st.isHost
    /\ ~IsStale(st.lastProcessedGameControl, timestamp)
    /\ action = START => ~st.isStarting

Counted(applied) == Min(applied + 1, MaxApplied)

\* ------------------------------------------------- the host's snapshots
\* GameState records a host's getState() produces: its own paddle on the
\* left, the countdown only in COUNTDOWN, the winner only in GAME_OVER.
Snapshot(status, ballPosition, playerY, opponentY, playerScore, opponentScore, countdown, additionalBalls, config) ==
    [status |-> status,
     ball |-> NewBall(ballPosition,
                      IF status = WAITING THEN Vec(0, 0) ELSE Vec(BallSpeed, 0)),
     playerPaddle |-> NewPaddle(LeftPaddleX, playerY),
     opponentPaddle |-> NewPaddle(RightPaddleX, opponentY),
     playerScore |-> playerScore,
     opponentScore |-> opponentScore,
     countdown |-> countdown,
     winner |-> IF status # GAME_OVER THEN NoWinner
                ELSE IF playerScore >= config.winningScore THEN "player"
                ELSE "opponent",
     config |-> config,
     additionalBalls |-> additionalBalls,
     absent |-> {}]

MidY == FieldHeight \div 2
\* ball positions at distance 0, exactly 10 and more than 10 from the centre
BallPositions == {Center, Vec(Center.x + 6, Center.y + 8), Vec(Center.x + 7, Center.y + 8)}
\* paddle heights at distance 0 and more than 10 from the middle
OpponentYs == {MidY, MidY + 11}
OtherConfig == [DefaultConfig EXCEPT !.winningScore = WinningScore + 1]

Snapshots ==
    {Snapshot(WAITING, Center, MidY, MidY, 0, 0, <<>>, <<>>, DefaultConfig)}
    \cup {Snapshot(COUNTDOWN, Center, MidY, MidY, 0, 0, <<c>>, <<>>, DefaultConfig) :
             c \in {InitialCountdown, InitialCountdown - 1}}
    \cup {Snapshot(PLAYING, b, MidY, oy, ps, 0, <<>>, <<>>, DefaultConfig) :
             b \in BallPositions, oy \in OpponentYs, ps \in {0, WinningScore - 1}}
    \cup {Snapshot(PLAYING, Center, py, MidY, 0, 0, <<>>, <<>>, DefaultConfig) :
             py \in {MidY + 5, MidY + 11}}
    \cup {Snapshot(PLAYING, Center, MidY, MidY, 0, 0, <<>>,
                   <<NewBall(Vec(Center.x + 100, Center.y), Vec(BallSpeed, 0))>>,
                   DefaultConfig),
          Snapshot(PLAYING, Center, MidY, MidY, WinningScore, 0, <<>>, <<>>, OtherConfig)}
    \cup {Snapshot(PAUSED, b, MidY, MidY, 0, 0, <<>>, <<>>, DefaultConfig) :
             b \in {Center, Vec(Center.x + 7, Center.y + 8)}}
    \cup {Snapshot(GAME_OVER, Center, MidY, MidY, WinningScore, 0, <<>>, <<>>, DefaultConfig),
          Snapshot(GAME_OVER, Center, MidY, MidY, 0, WinningScore, <<>>, <<>>, DefaultConfig)}

\* ------------------------------------- snapshots without optional fields
\* The optional fields of a GameState the model keeps.  Reading an absent
\* winner yields `undefined`; an absent countdown is the empty <<>> that
\* Snapshot already uses.
Undefined == "undefined"

Optionals ==
    {"winner", "additionalBalls",
     "playerPaddle.isRebounding", "opponentPaddle.isRebounding"}

Without(state, fields) ==
    [state EXCEPT !.absent = fields,
                  !.winner = IF "winner" \in fields THEN Undefined ELSE @]

SparseSnapshots ==
    {Without(state, fields) :
        state \in {Snapshot(WAITING, Center, MidY, MidY, 0, 0, <<>>, <<>>, DefaultConfig),
                   Snapshot(COUNTDOWN, Center, MidY, MidY, 0, 0, <<>>, <<>>, DefaultConfig),
                   Snapshot(PLAYING, Center, MidY, MidY, 0, 0, <<>>, <<>>, DefaultConfig),
                   Snapshot(PLAYING, Vec(Center.x + 100, Center.y), MidY, MidY,
                            0, 0, <<>>, <<>>, DefaultConfig),
                   Snapshot(GAME_OVER, Center, MidY, MidY, WinningScore, 0,
                            <<>>, <<>>, DefaultConfig)},
        fields \in {{f} : f \in Optionals} \cup {Optionals}}

Timestamps == 1..MaxTimestamp

\* the connection statuses the transport reports (CONNECTING is handled as ERROR is)
StatusChanges == {DISCONNECTED, CONNECTED, ERROR}

\* ------------------------------------------------------------ SyncService
NewSyncService == [lastSyncTime |-> 0, stateBuffer |-> <<>>, inputBuffer |-> <<>>]
NewSyncLog == [lastSuccess |-> [sent |-> FALSE, at |-> 0], lastAttempt |-> [sent |-> FALSE, at |-> 0], states |-> <<>>, inputs |-> <<>>]
NoCall == [op |-> "none"]

\* the snapshots syncGameState is called with, as far as it reads them
SyncedStates ==
    {[status |-> status, countdown |-> IF status = COUNTDOWN THEN <<3>> ELSE <<>>] : status \in GameStatus}

\* SyncService.syncGameState with its clock: delivered is what the
\* transport's sendGameState returns
SyncService_syncGameState(svc, state, timestamp, delivered) ==
    LET isImportantState == \/ state.status = COUNTDOWN
                            \/ state.status = PLAYING
                            \/ state.status = GAME_OVER
                            \/ state.countdown # <<>>
    IN  IF ~isImportantState /\ timestamp - svc.lastSyncTime < SyncInterval
        THEN [service |-> svc, attempted |-> FALSE, result |-> FALSE]
        ELSE [service |-> [svc EXCEPT !.lastSyncTime = timestamp],
              attempted |-> TRUE, result |-> delivered]

\* a full buffer that turns the new item away
Buffered_keep(buffer, item) ==
    IF Len(buffer) >= BufferLimit THEN buffer ELSE Append(buffer, item)

\* Array.shift followed by Array.push on a buffer that is full
Buffered(buffer, item) ==
    Append(IF Len(buffer) >= BufferLimit THEN Tail(buffer) ELSE buffer, item)

bufferGameState(svc, state) == [svc EXCEPT !.stateBuffer = Buffered(@, state)]

bufferInput(svc, input) == [svc EXCEPT !.inputBuffer = Buffered(@, input)]

\* SyncService.stop, and SyncService.start when not yet started: both buffers
\* are emptied
clearBuffers(svc) == [svc EXCEPT !.stateBuffer = <<>>, !.inputBuffer = <<>>]

\* --------------------------------------------------------------- GameLoop
\* a handle is the one-element sequence of its number, no handle the empty one
NoFrame == <<>>

\* pending holds the handles of the callbacks requestAnimationFrame has
\* queued; running says how far the callback being run has come
NewGameLoop ==
    [isRunning |-> FALSE, rafId |-> NoFrame, pending |-> {}, requested |-> 0, running |-> "none"]

requestAnimationFrame(loop) ==
    [loop EXCEPT !.requested = @ + 1, !.pending = @ \cup {<<loop.requested + 1>>},
                 !.rafId = <<loop.requested + 1>>]

cancelAnimationFrame(loop, handle) == [loop EXCEPT !.pending = @ \ {handle}]

\* GameLoop.start requesting a frame whether or not the loop runs
loopStart_again(loop) ==
    requestAnimationFrame([loop EXCEPT !.isRunning = TRUE])

loopStart(loop) ==
    IF ~loop.isRunning THEN requestAnimationFrame([loop EXCEPT !.isRunning = TRUE])
    ELSE loop

loopStop(loop) ==
    IF loop.isRunning /\ loop.rafId # NoFrame
    THEN [cancelAnimationFrame(loop, loop.rafId) EXCEPT !.rafId = NoFrame,
                                                        !.isRunning = FALSE]
    ELSE loop

\* GameLoop.gameLoop up to the call of updateFn
loopFrame(loop, handle) ==
    LET called == [loop EXCEPT !.pending = @ \ {handle}, !.running = "update"]
    IN  IF called.isRunning THEN requestAnimationFrame(called) ELSE called

\* ------------------------------------------------------ Ball speed scaling
NewRally == [hitCounter |-> 0, speedScaleFactor |-> ScaleUnit]
Served == [op |-> "serve", pre |-> NewRally, previousHit |-> ScaleUnit, lastHit |-> ScaleUnit]

\* the values of Math.random() * 0.2, in 1/1000
Jitters == {((JitterRange - 1) * i) \div JitterSteps : i \in 0..JitterSteps}

\* Ball.increaseBallSpeed with Math.random() * 0.2 = jitter / 1000
increaseBallSpeed(b, jitter) ==
    LET hitCounter == b.hitCounter + 1
    IN  [hitCounter |-> hitCounter,
         speedScaleFactor |->
             Min(MaxSpeedScale,
                 ScaleUnit + (hitCounter * HitSpeedIncrement * (JitterUnit + jitter)) \div JitterUnit)]

\* Ball.resetSpeedScaling, called by Ball.reset on every serve
resetSpeedScaling(b) == [hitCounter |-> 0, speedScaleFactor |-> ScaleUnit]

\* Game.applyPowerUpEffect for SPEED_UP
applySpeedUp(b) ==
    [b EXCEPT !.speedScaleFactor = Min(SpeedUpLimit, (@ * SpeedUpPercent) \div 100)]

\* ---------------------------------------------------------------- actions
Init ==
    /\ isHost \in BOOLEAN
    /\ connectionStatus \in {DISCONNECTED, CONNECTED}
    /\ isNetworkGame = (connectionStatus # DISCONNECTED)
    /\ game = NewGame(IF isHost THEN HOST ELSE CLIENT)
    /\ lastProcessedGameControl = NoControl
    /\ isStarting = FALSE
    /\ inputState = [up |-> FALSE, down |-> FALSE]
    /\ gameLoopRunning = FALSE
    /\ lastAppliedSnapshot = 0
    /\ sent = <<>>
    /\ event = NoEvent
    /\ syncService = NewSyncService
    /\ now = SyncInterval
    /\ syncLog = NewSyncLog
    /\ syncCall = NoCall
    /\ gameLoop = NewGameLoop
    /\ loopCall = NoCall
    /\ rally = NewRally
    /\ rallyCall = Served
    /\ session = NewSession
    /\ race = NewRace

Idle == event.type = "none"

\* the event loop runs one handler to completion: the program state becomes
\* st, and event records the handler, its argument and the state before it
Run(type, msg, st) ==
    /\ Idle
    /\ st.game.countdown >= -MaxOvershoot
    /\ st.game.consecutiveHits.playerPaddle <= MaxHits
    /\ st.game.consecutiveHits.opponentPaddle <= MaxHits
    /\ game' = st.game
    /\ isHost' = st.isHost
    /\ isNetworkGame' = st.isNetworkGame
    /\ connectionStatus' = st.connectionStatus
    /\ lastProcessedGameControl' = st.lastProcessedGameControl
    /\ isStarting' = st.isStarting
    /\ inputState' = st.inputState
    /\ gameLoopRunning' = st.gameLoopRunning
    /\ lastAppliedSnapshot' = st.lastAppliedSnapshot
    /\ sent' = st.sent
    /\ event' = [type |-> type, msg |-> msg, pre |-> Here]
    /\ UNCHANGED components

\* the handler returns to the event loop
Return ==
    /\ ~Idle
    /\ event' = NoEvent
    /\ sent' = <<>>
    /\ UNCHANGED <<game, isHost, isNetworkGame, connectionStatus,
                   lastProcessedGameControl, isStarting, inputState,
                   gameLoopRunning, lastAppliedSnapshot, components>>

StartGame ==
    \E serveToLeft \in BOOLEAN :
        Run("startGame", "", ManagerStartGame(Here, serveToLeft))

PauseGame == Run("pauseGame", "", ManagerPauseGame(Here))

ResumeGame == Run("resumeGame", "", ManagerResumeGame(Here))

RestartGame ==
    \E serveToLeft \in BOOLEAN :
        Run("restartGame", "", ManagerRestartGame(Here, serveToLeft))

SetPlayerInput ==
    \E up \in BOOLEAN, down \in BOOLEAN :
        /\ inputState # [up |-> up, down |-> down]
        /\ Run("setPlayerInput", "", managerSetPlayerInput(Here, up, down))

Cleanup ==
    /\ gameLoopRunning \/ game.countdownTimeout # NoHandle
    /\ Run("cleanup", "", managerCleanup(Here))

ReceiveGameControl ==
    \E action \in GameControlAction, timestamp \in Timestamps, serveToLeft \in BOOLEAN :
        /\ connectionStatus = CONNECTED
        /\ Run(GAME_CONTROL, [action |-> action, timestamp |-> timestamp],
               onGameControl(Here, action, timestamp, serveToLeft))

ReceiveGameState ==
    \E state \in Snapshots, timestamp \in Timestamps, serveToLeft \in BOOLEAN :
        /\ connectionStatus = CONNECTED
        /\ Run(GAME_STATE,
               [state |-> state, timestamp |-> timestamp,
                needsReconciliation |-> needsReconciliation(getState(game), state)],
               [onGameState(Here, state, serveToLeft)
                    EXCEPT !.lastAppliedSnapshot = IF isHost THEN @ ELSE timestamp])

ReceiveSparseGameState ==
    \E state \in SparseSnapshots, timestamp \in Timestamps, serveToLeft \in BOOLEAN :
        /\ connectionStatus = CONNECTED
        /\ Run(GAME_STATE,
               [state |-> state, timestamp |-> timestamp,
                needsReconciliation |-> needsReconciliation(getState(game), state)],
               [onGameState(Here, state, serveToLeft)
                    EXCEPT !.lastAppliedSnapshot = IF isHost THEN @ ELSE timestamp])

ReceivePaddleMove ==
    \E up \in BOOLEAN, down \in BOOLEAN :
        /\ connectionStatus = CONNECTED
        /\ Run(PADDLE_MOVE, [up |-> up, down |-> down], onPaddleMove(Here, up, down))

ConnectionStatusChange ==
    \E status \in StatusChanges, throttled \in BOOLEAN :
        /\ status # connectionStatus
        /\ Run("statusChange", status, onStatusChange(Here, status, throttled))

\* an armed countdown timer fires
TimerFires ==
    \E kind \in TimerKinds, serveToLeft \in BOOLEAN :
        /\ game.timers[kind] > 0
        /\ Run("timer", kind, [Here EXCEPT !.game = fireTimer(@, kind, serveToLeft)])

\* the 2000 ms timer armed with isStarting fires
StartingReset ==
    /\ isStarting
    /\ Run("startingReset", "", [Here EXCEPT !.isStarting = FALSE])

\* an animation frame: GameManager.update after no time or one fixed step
Update ==
    \E ticks \in {0, 1}, serveToLeft \in BOOLEAN, throttled \in BOOLEAN :
        /\ gameLoopRunning
        /\ Run("update",
               [elapsed |-> ticks * StepParts, throttled |-> throttled,
                steps |-> gameUpdate(game, ticks * StepParts, serveToLeft).steps],
               managerUpdate(Here, ticks * StepParts, serveToLeft, throttled))

\* frame times: a part of a step, a step and a part, five steps and a part,
\* six steps, and more than the 0.1 s cap
LongFrameTimes ==
    {1, StepParts + 1, MaxSteps * StepParts + 1, (MaxSteps + 1) * StepParts,
     CappedDeltaSteps * StepParts + 1}

\* an animation frame after a stall or a fraction of a step
LongFrame ==
    \E elapsed \in LongFrameTimes, serveToLeft \in BOOLEAN, throttled \in BOOLEAN :
        /\ gameLoopRunning
        /\ Run("update",
               [elapsed |-> elapsed, throttled |-> throttled,
                steps |-> gameUpdate(game, elapsed, serveToLeft).steps],
               managerUpdate(Here, elapsed, serveToLeft, throttled))

\* the transport raises host-ping-received
HostPingReceived ==
    \E throttled \in BOOLEAN :
        /\ connectionStatus = CONNECTED
        /\ Run("hostPing", [throttled |-> throttled], onHostPing(Here, throttled))

\* the transport raises client-pong-received
ClientPongReceived ==
    /\ connectionStatus = CONNECTED
    /\ Run("clientPong", "", onClientPong(Here))

\* --------------------------------------------------- calls on SyncService
TimePasses ==
    /\ now < MaxClock
    /\ now' = now + 1
    /\ UNCHANGED <<manager, session, race, syncService, syncLog, syncCall, gameLoop, loopCall, rally, rallyCall>>

\* the host's update loop calls syncGameState with the time of the frame
SyncGameState ==
    \E state \in SyncedStates, delivered \in BOOLEAN :
        LET call == SyncService_syncGameState(syncService, state, now, delivered)
        IN  /\ syncService' = call.service
            /\ syncLog' = [syncLog EXCEPT !.lastSuccess =
                               IF call.attempted /\ call.result
                               THEN [sent |-> TRUE, at |-> now] ELSE @,
                                          !.lastAttempt =
                               IF call.attempted
                               THEN [sent |-> TRUE, at |-> now] ELSE @]
            /\ syncCall' = [op |-> "syncGameState", state |-> state, timestamp |-> now,
                            attempted |-> call.attempted, result |-> call.result,
                            pre |-> syncService, log |-> syncLog]
            /\ UNCHANGED <<manager, session, race, now, gameLoop, loopCall, rally, rallyCall>>

\* Date.now() at the time `now` of the animation-frame clock: ahead of it by
\* the epoch time at which the page was loaded, which is more than a
\* session lasts
EpochOffset == MaxClock

DateNow == now + EpochOffset

\* the host's PING handler and its CONNECTED handler call syncGameState
\* with Date.now()
SyncOnPing ==
    \E state \in SyncedStates, delivered \in BOOLEAN :
        LET call == SyncService_syncGameState(syncService, state, DateNow, delivered)
        IN  /\ syncService' = call.service
            /\ syncLog' = [syncLog EXCEPT !.lastSuccess =
                               IF call.attempted /\ call.result
                               THEN [sent |-> TRUE, at |-> now] ELSE @,
                                          !.lastAttempt =
                               IF call.attempted
                               THEN [sent |-> TRUE, at |-> now] ELSE @]
            /\ syncCall' = [op |-> "syncOnPing", state |-> state, timestamp |-> DateNow,
                            attempted |-> call.attempted, result |-> call.result,
                            pre |-> syncService, log |-> syncLog]
            /\ UNCHANGED <<manager, session, race, now, gameLoop, loopCall, rally, rallyCall>>

\* a GAME_STATE message reaches the client's handler, which buffers it
BufferGameState ==
    /\ Len(syncLog.states) < MaxArrivals
    /\ LET state == Len(syncLog.states) + 1
       IN  /\ syncService' = bufferGameState(syncService, state)
           /\ syncLog' = [syncLog EXCEPT !.states = Append(@, state)]
           /\ syncCall' = [op |-> "bufferGameState", pre |-> syncService, log |-> syncLog]
    /\ UNCHANGED <<manager, session, race, now, gameLoop, loopCall, rally, rallyCall>>

\* a PADDLE_MOVE message reaches the host's handler, which buffers it
BufferInput ==
    /\ Len(syncLog.inputs) < MaxArrivals
    /\ LET input == Len(syncLog.inputs) + 1
       IN  /\ syncService' = bufferInput(syncService, input)
           /\ syncLog' = [syncLog EXCEPT !.inputs = Append(@, input)]
           /\ syncCall' = [op |-> "bufferInput", pre |-> syncService, log |-> syncLog]
    /\ UNCHANGED <<manager, session, race, now, gameLoop, loopCall, rally, rallyCall>>

\* SyncService.start or SyncService.stop empties the buffers
ClearBuffers ==
    /\ syncService' = clearBuffers(syncService)
    /\ syncLog' = [syncLog EXCEPT !.states = <<>>, !.inputs = <<>>]
    /\ syncCall' = [op |-> "clear", pre |-> syncService, log |-> syncLog]
    /\ UNCHANGED <<manager, session, race, now, gameLoop, loopCall, rally, rallyCall>>

\* ------------------------------------------------------ steps of GameLoop
LoopStep(op, loop) ==
    /\ gameLoop' = loop
    /\ loopCall' = [op |-> op, pre |-> gameLoop]
    /\ UNCHANGED <<manager, session, race, syncService, now, syncLog, syncCall, rally, rallyCall>>

\* start and stop are called between two callbacks or from inside one
LoopStart ==
    /\ gameLoop.requested < MaxFrames
    /\ LoopStep("start", loopStart(gameLoop))

LoopStop == LoopStep("stop", loopStop(gameLoop))

\* the browser runs a pending callback once no other is running
FrameFires ==
    \E handle \in gameLoop.pending :
        /\ gameLoop.running = "none"
        /\ gameLoop.requested < MaxFrames
        /\ LoopStep("frame", loopFrame(gameLoop, handle))

\* updateFn returns and renderFn is called
UpdateReturns ==
    /\ gameLoop.running = "update"
    /\ LoopStep("render", [gameLoop EXCEPT !.running = "render"])

\* renderFn returns and with it the callback
RenderReturns ==
    /\ gameLoop.running = "render"
    /\ LoopStep("return", [gameLoop EXCEPT !.running = "none"])

\* ------------------------------------------------------- steps of a rally
RallyStep(op, b) ==
    /\ rally' = b
    /\ rallyCall' = [op |-> op, pre |-> rally, previousHit |-> rallyCall.lastHit,
                     lastHit |-> IF op = "speedUp" THEN rallyCall.lastHit
                                 ELSE b.speedScaleFactor]
    /\ UNCHANGED <<manager, session, race, syncService, now, syncLog, syncCall, gameLoop, loopCall>>

\* the ball hits a paddle
PaddleHit ==
    \E jitter \in Jitters :
        /\ rally.hitCounter < MaxRally
        /\ RallyStep("hit", increaseBallSpeed(rally, jitter))

\* the ball collects a SPEED_UP power-up
SpeedUp ==
    /\ rally.speedScaleFactor < SpeedUpLimit
    /\ RallyStep("speedUp", applySpeedUp(rally))

\* a point is scored and the ball is served again
Serve ==
    /\ rally # NewRally
    /\ RallyStep("serve", resetSpeedScaling(rally))

\* ------------------------------------------------- opening a session
\* initializeHost: initHostSession either throws or returns a session code
InitializeHost ==
    \E succeeds \in BOOLEAN :
        Run("initializeHost", "",
            IF succeeds THEN [Here EXCEPT !.isHost = TRUE, !.isNetworkGame = TRUE]
            ELSE Here)

\* joinGame: the assignments follow the awaited joinSession when it resolves
JoinGame ==
    \E succeeds \in BOOLEAN :
        Run("joinGame", "",
            IF succeeds THEN [Here EXCEPT !.isHost = FALSE, !.isNetworkGame = TRUE]
            ELSE Here)

RoleNext ==
    \/ InitializeHost
    \/ JoinGame
    \/ StartGame
    \/ ConnectionStatusChange
    \/ Update
    \/ Return

RoleSpec == Init /\ [][RoleNext]_vars

\* ------------------------------------------- countdown: ticks and timers
RaceStep(r) ==
    /\ race' = r
    /\ UNCHANGED <<manager, session, syncService, now, syncLog, syncCall, gameLoop,
                   loopCall, rally, rallyCall>>

\* startCountdown on a waiting game
RaceStarts ==
    \E role \in Roles, serveToLeft \in BOOLEAN :
        /\ race.game.status = WAITING
        /\ LET g == startCountdown(NewGame(role), serveToLeft)
           IN  RaceStep([game |-> g, time |-> 0, due |-> Rearmed(g, 0)])

\* a fixed step of simulated time runs at its instant, after the timers
\* that were due before it
RaceTick ==
    \E serveToLeft \in BOOLEAN :
        /\ race.game.status = COUNTDOWN
        /\ race.due # NoDue => race.due[1] > race.time
        /\ LET g == fixedUpdate(race.game, serveToLeft)
           IN  RaceStep([game |-> g, time |-> race.time + 1,
                         due |-> IF Armed(g) THEN race.due ELSE NoDue])

\* a step of time in which the loop runs no fixed step (a dropped frame)
RaceStalls ==
    /\ race.game.status = COUNTDOWN
    /\ race.due # NoDue => race.due[1] > race.time
    /\ RaceStep([race EXCEPT !.time = @ + 1])

\* the armed timer fires at its due instant, before or after the fixed
\* step of that instant
RaceTimerFires ==
    \E kind \in TimerKinds, serveToLeft \in BOOLEAN :
        /\ race.game.status = COUNTDOWN
        /\ race.due # NoDue
        /\ race.due[1] <= race.time + 1
        /\ race.game.timers[kind] > 0
        /\ LET at == Max(race.due[1], race.time)
               g == fireTimer(race.game, kind, serveToLeft)
           IN  RaceStep([game |-> g, time |-> race.time, due |-> Rearmed(g, at)])

RaceNext ==
    \/ RaceStarts
    \/ RaceTick
    \/ RaceStalls
    \/ RaceTimerFires

RaceSpec == Init /\ [][RaceNext]_vars

\* ---------------------------------------------- one control action, two peers
SessionStep(s) ==
    /\ session' = s
    /\ UNCHANGED <<manager, race, syncService, now, syncLog, syncCall, gameLoop,
                   loopCall, rally, rallyCall>>

\* the one user action of the session: a button on either peer
UserActs ==
    \E role \in Roles, action \in GameControlAction, serveToLeft \in BOOLEAN :
        /\ session.user = "none"
        /\ SessionStep([Transmit(session, role,
                                 Control(session.peers[role], action, serveToLeft))
                           EXCEPT !.user = action,
                                  !.applied = IF role = HOST THEN Counted(@) ELSE @])

\* the transport delivers the oldest control message to its receiver
Deliver ==
    \E role \in Roles, serveToLeft \in BOOLEAN :
        /\ session.wire[role] # <<>>
        /\ LET message == Head(session.wire[role])
               st == session.peers[role]
               s1 == [session EXCEPT !.wire[role] = Tail(@)]
           IN  SessionStep([Transmit(s1, role,
                                     onGameControl(st, message.action,
                                                   message.timestamp, serveToLeft))
                               EXCEPT !.applied =
                                   IF HostApplies(st, message.action, message.timestamp)
                                   THEN Counted(@) ELSE @])

\* the 2000 ms timer of the START handler resets isStarting
SessionStartingReset ==
    \E role \in Roles :
        /\ session.peers[role].isStarting
        /\ SessionStep([session EXCEPT !.peers[role].isStarting = FALSE])

SessionInit ==
    /\ game = NewGame(HOST)
    /\ isHost = TRUE
    /\ connectionStatus = CONNECTED
    /\ isNetworkGame = TRUE
    /\ lastProcessedGameControl = NoControl
    /\ isStarting = FALSE
    /\ inputState = [up |-> FALSE, down |-> FALSE]
    /\ gameLoopRunning = FALSE
    /\ lastAppliedSnapshot = 0
    /\ sent = <<>>
    /\ event = NoEvent
    /\ syncService = NewSyncService
    /\ now = SyncInterval
    /\ syncLog = NewSyncLog
    /\ syncCall = NoCall
    /\ gameLoop = NewGameLoop
    /\ loopCall = NoCall
    /\ rally = NewRally
    /\ rallyCall = Served
    /\ session \in {Session(status) : status \in GameStatus}
    /\ race = NewRace

SessionNext ==
    \/ UserActs
    \/ Deliver
    \/ SessionStartingReset

\* the transport delivers what it was given
SessionSpec == SessionInit /\ [][SessionNext]_vars /\ WF_vars(Deliver)

Next ==
    \/ StartGame
    \/ PauseGame
    \/ ResumeGame
    \/ RestartGame
    \/ SetPlayerInput
    \/ Cleanup
    \/ ReceiveGameControl
    \/ ReceiveGameState
    \/ ReceivePaddleMove
    \/ ConnectionStatusChange
    \/ TimerFires
    \/ StartingReset
    \/ Update
    \/ LongFrame
    \/ HostPingReceived
    \/ ClientPongReceived
    \/ Return
    \/ TimePasses
    \/ SyncGameState
    \/ BufferGameState
    \/ BufferInput
    \/ ClearBuffers
    \/ LoopStart
    \/ LoopStop
    \/ FrameFires
    \/ UpdateReturns
    \/ RenderReturns
    \/ PaddleHit
    \/ SpeedUp
    \/ Serve
    \/ ReceiveSparseGameState
    \/ UserActs
    \/ Deliver
    \/ SessionStartingReset
    \/ RaceStarts
    \/ RaceTick
    \/ RaceStalls
    \/ RaceTimerFires
    \/ SyncOnPing
    \/ InitializeHost
    \/ JoinGame

Spec == Init /\ [][Next]_vars

\* The client's receive path: snapshots arrive while the client predicts
\* locally; no keys are pressed, no control messages, no connection changes.
ReceiveNext ==
    \/ ReceiveGameState
    \/ Update
    \/ Return

ReceiveSpec == Init /\ [][ReceiveNext]_vars

\* The lifecycle of one peer: user controls, control messages, connection
\* changes, countdown timers and fixed ticks; paddles are not steered and no
\* snapshot arrives.
ControlNext ==
    \/ StartGame
    \/ PauseGame
    \/ ResumeGame
    \/ RestartGame
    \/ Cleanup
    \/ ReceiveGameControl
    \/ ConnectionStatusChange
    \/ TimerFires
    \/ StartingReset
    \/ Update
    \/ Return

ControlSpec == Init /\ [][ControlNext]_vars

\* A stalled game loop: no animation frame runs, the connection stays as it
\* is and no snapshot arrives; the game is started, control messages of the
\* peer are delivered and armed timers fire.
StallNext ==
    \/ StartGame
    \/ ReceiveGameControl
    \/ TimerFires
    \/ StartingReset
    \/ Return

\* an armed timer fires sooner or later, and a running handler returns
StallSpec == Init /\ [][StallNext]_vars /\ SF_vars(TimerFires) /\ WF_vars(Return)

\* The lifecycle on a connection that stays as it is: the game is started,
\* paused, resumed and restarted locally or by control messages, timers fire
\* and frames run.
LifecycleNext ==
    \/ StartGame
    \/ PauseGame
    \/ ResumeGame
    \/ RestartGame
    \/ ReceiveGameControl
    \/ TimerFires
    \/ StartingReset
    \/ Update
    \/ Return

LifecycleSpec == Init /\ [][LifecycleNext]_vars

\* A connected client: snapshots and control messages of the host arrive,
\* and the player starts, pauses, resumes and restarts.
ClientInit == Init /\ ~isHost /\ connectionStatus = CONNECTED

ClientNext ==
    \/ StartGame
    \/ PauseGame
    \/ ResumeGame
    \/ RestartGame
    \/ ReceiveGameControl
    \/ ReceiveGameState
    \/ StartingReset
    \/ Return

ClientSpec == ClientInit /\ [][ClientNext]_vars

\* The game loop of a started game with frames of every length.
UpdateNext ==
    \/ StartGame
    \/ Update
    \/ LongFrame
    \/ Return

UpdateSpec == Init /\ [][UpdateNext]_vars

\* The host's send throttle: frames at any time, in any status, with a
\* transport that accepts or refuses the snapshot.
ThrottleNext ==
    \/ TimePasses
    \/ SyncGameState

ThrottleSpec == Init /\ [][ThrottleNext]_vars

\* The throttle under calls from the update loop and from the handlers.
ClocksNext ==
    \/ TimePasses
    \/ SyncGameState
    \/ SyncOnPing

ClocksSpec == Init /\ [][ClocksNext]_vars

\* The two buffers of SyncService under any interleaving of arrivals.
BufferNext ==
    \/ BufferGameState
    \/ BufferInput
    \/ ClearBuffers

BufferSpec == Init /\ [][BufferNext]_vars

\* The paths on which snapshots are sent and received: frames, pings,
\* connection changes and arriving snapshots, on either role.
FlowNext ==
    \/ ReceiveGameState
    \/ ConnectionStatusChange
    \/ HostPingReceived
    \/ ClientPongReceived
    \/ Update
    \/ Return

FlowSpec == Init /\ [][FlowNext]_vars

\* The host's input path: paddle intents arrive while the game runs.
InputNext ==
    \/ StartGame
    \/ ReceivePaddleMove
    \/ Update
    \/ Return

InputSpec == Init /\ [][InputNext]_vars

\* GameLoop under any order of start, stop and the browser's callbacks.
LoopNext ==
    \/ LoopStart
    \/ LoopStop
    \/ FrameFires
    \/ UpdateReturns
    \/ RenderReturns

LoopSpec == Init /\ [][LoopNext]_vars

\* Games in play as a rally leaves them: the main ball at the centre or one
\* tick away from a paddle, further balls at the centre or one tick away
\* from a scoring boundary, and paddles that have hit before.
BallStarts ==
    {Center, Vec(LeftPaddleX + PaddleWidth \div 2 + PerTick(BallSpeed), MidY),
     Vec(RightPaddleX - PaddleWidth \div 2 - PerTick(BallSpeed), MidY)}

AdditionalStarts ==
    {<<>>,
     <<NewBall(Vec(PerTick(BallSpeed), MidY), Vec(-BallSpeed, 0))>>,
     <<NewBall(Center, Vec(BallSpeed, 0)),
       NewBall(Vec(FieldWidth - PerTick(BallSpeed), MidY), Vec(BallSpeed, 0))>>}

ScoringGames ==
    {[NewGame(role) EXCEPT !.status = PLAYING,
                           !.ball = NewBall(position, Vec(vx, 0)),
                           !.additionalBalls = balls,
                           !.consecutiveHits = [playerPaddle |-> hits, opponentPaddle |-> hits]] :
        role \in {HOST, CLIENT}, position \in BallStarts, vx \in {-BallSpeed, BallSpeed},
        balls \in AdditionalStarts, hits \in {0, 1}}

ScoringInit ==
    /\ game \in ScoringGames
    /\ isHost = (game.role = HOST)
    /\ connectionStatus = CONNECTED
    /\ isNetworkGame = TRUE
    /\ lastProcessedGameControl = NoControl
    /\ isStarting = FALSE
    /\ inputState = [up |-> FALSE, down |-> FALSE]
    /\ gameLoopRunning = TRUE
    /\ lastAppliedSnapshot = 0
    /\ sent = <<>>
    /\ event = NoEvent
    /\ syncService = NewSyncService
    /\ now = SyncInterval
    /\ syncLog = NewSyncLog
    /\ syncCall = NoCall
    /\ gameLoop = NewGameLoop
    /\ loopCall = NoCall
    /\ rally = NewRally
    /\ rallyCall = Served
    /\ session = NewSession
    /\ race = NewRace

ScoringNext ==
    \/ Update
    \/ Return

ScoringSpec == ScoringInit /\ [][ScoringNext]_vars

\* The speed scaling of the ball over rallies of paddle hits, speed-ups and
\* serves.
\* A client whose game holds values for the optional fields: a winner after
\* GAME_OVER, a leftover additional ball, paddles in a rebound.
DecodeGames ==
    {[NewGame(CLIENT) EXCEPT
        !.status = status,
        !.winner = IF status = GAME_OVER THEN "opponent" ELSE NoWinner,
        !.opponentScore = IF status = GAME_OVER THEN WinningScore ELSE 0,
        !.ball = NewBall(Center, Vec(BallSpeed, 0)),
        !.additionalBalls = balls,
        !.playerPaddle.isRebounding = playerRebounding,
        !.opponentPaddle.isRebounding = opponentRebounding] :
        status \in {PLAYING, GAME_OVER},
        balls \in {<<>>, <<NewBall(Vec(Center.x + 100, Center.y), Vec(BallSpeed, 0))>>},
        playerRebounding \in BOOLEAN, opponentRebounding \in BOOLEAN}

DecodeInit ==
    /\ game \in DecodeGames
    /\ isHost = FALSE
    /\ connectionStatus = CONNECTED
    /\ isNetworkGame = TRUE
    /\ lastProcessedGameControl = NoControl
    /\ isStarting = FALSE
    /\ inputState = [up |-> FALSE, down |-> FALSE]
    /\ gameLoopRunning = TRUE
    /\ lastAppliedSnapshot = 0
    /\ sent = <<>>
    /\ event = NoEvent
    /\ syncService = NewSyncService
    /\ now = SyncInterval
    /\ syncLog = NewSyncLog
    /\ syncCall = NoCall
    /\ gameLoop = NewGameLoop
    /\ loopCall = NoCall
    /\ rally = NewRally
    /\ rallyCall = Served
    /\ session = NewSession
    /\ race = NewRace

DecodeNext ==
    \/ ReceiveSparseGameState
    \/ Return

DecodeSpec == DecodeInit /\ [][DecodeNext]_vars

RallyNext ==
    \/ PaddleHit
    \/ SpeedUp
    \/ Serve

RallySpec == Init /\ [][RallyNext]_vars

\* ------------------------------------------------------------------ claims
\* the handler that has just run, its argument and the state before it
Handled(type) == event.type = type
Before == event.pre

ClientReceived == Handled(GAME_STATE) /\ ~Before.isHost
Received == event.msg.state
LocalBefore == getState(Before.game)

DistanceSquared(a, b) == (a.x - b.x) * (a.x - b.x) + (a.y - b.y) * (a.y - b.y)

\* the Euclidean distance of a and b is less than / more than d
CloserThan(a, b, d) == \E k \in 1..d : DistanceSquared(a, b) < k * k /\ k <= d
FartherThan(a, b, d) == \A k \in 0..d : k * k < DistanceSquared(a, b)

PaddlesWithin(localState, remoteState, d) ==
    /\ Abs(localState.playerPaddle.position.y - remoteState.playerPaddle.position.y) <= d
    /\ Abs(localState.opponentPaddle.position.y - remoteState.opponentPaddle.position.y) <= d

\* C1: when a client handles a snapshot whose ball is less than the threshold
\* away from the local ball, and no paddle differs beyond it, the local ball
\* position is afterwards what it was before.
C1_SoftMergeKeepsBall ==
    ( /\ ClientReceived
      /\ CloserThan(LocalBefore.ball.position, Received.ball.position,
                    ReconciliationThreshold)
      /\ PaddlesWithin(LocalBefore, Received, ReconciliationThreshold) )
    => game.ball.position = Before.game.ball.position

\* C2: when a client handles a snapshot whose ball is more than the threshold
\* away from the local ball, the local ball position is afterwards exactly
\* the snapshot's.
C2_HardReconciliationSnapsBall ==
    ( /\ ClientReceived
      /\ FartherThan(LocalBefore.ball.position, Received.ball.position,
                     ReconciliationThreshold) )
    => game.ball.position = Received.ball.position

\* C3: whenever needsReconciliation is true for a received snapshot, the
\* client's status, scores, main ball, paddles, additional balls and config
\* are afterwards the snapshot's, whatever the two statuses were.
C3_HardReconciliationOverwrites ==
    ( ClientReceived /\ event.msg.needsReconciliation )
    => /\ game.status = Received.status
       /\ game.playerScore = Received.playerScore
       /\ game.opponentScore = Received.opponentScore
       /\ BallGetState(game.ball) = Received.ball
       /\ PaddleGetState(game.playerPaddle) = Received.playerPaddle
       /\ PaddleGetState(game.opponentPaddle) = Received.opponentPaddle
       /\ getState(game).additionalBalls = Received.additionalBalls
       /\ game.config = Received.config

\* C4: when needsReconciliation is false, handling the snapshot leaves the
\* client's own paddle as it was and sets the opponent paddle, both scores,
\* the status and the winner to the snapshot's (and the countdown, when the
\* snapshot is in COUNTDOWN).
C4_SoftMerge ==
    ( ClientReceived /\ ~event.msg.needsReconciliation )
    => /\ game.playerPaddle = Before.game.playerPaddle
       /\ PaddleGetState(game.opponentPaddle) = Received.opponentPaddle
       /\ game.playerScore = Received.playerScore
       /\ game.opponentScore = Received.opponentScore
       /\ game.status = Received.status
       /\ game.winner = Received.winner
       /\ (Received.status = COUNTDOWN => <<game.countdown>> = Received.countdown)

\* C5: needsReconciliation is true exactly when the distance of the two ball
\* positions, or the difference of the two playerPaddle heights, or of the
\* two opponentPaddle heights, is strictly greater than 10; a difference of
\* exactly 10 is not diverged, and swapping the arguments changes nothing.
C5_NeedsReconciliation ==
    ClientReceived
    => /\ event.msg.needsReconciliation
          = ( \/ FartherThan(LocalBefore.ball.position, Received.ball.position, 10)
              \/ ~PaddlesWithin(LocalBefore, Received, 10) )
       /\ needsReconciliation(Received, LocalBefore) = event.msg.needsReconciliation

\* a snapshot whose ball is exactly 10 away from the local one was merged
\* softly, and one whose opponent paddle is 11 away was reconciled hard
C5_Witness ==
    /\ ClientReceived
    /\ DistanceSquared(LocalBefore.ball.position, Received.ball.position) = 100
    /\ ~event.msg.needsReconciliation
    /\ game.ball.position = Received.ball.position

ControlReceived == Handled(GAME_CONTROL)

\* C6: a GAME_CONTROL message whose timestamp is strictly older than the last
\* processed one is ignored: the game (status, scores, armed timers) and the
\* last-processed record are what they were, and nothing is sent.
C6_StaleControlIgnored ==
    ( /\ ControlReceived
      /\ Before.lastProcessedGameControl # NoControl
      /\ event.msg.timestamp < Before.lastProcessedGameControl.timestamp )
    => /\ game = Before.game
       /\ lastProcessedGameControl = Before.lastProcessedGameControl
       /\ sent = <<>>

\* a PAUSE with timestamp 1 was delivered during play after a RESUME with
\* timestamp 2 had been processed
C6_Witness ==
    /\ ControlReceived
    /\ event.msg = [action |-> PAUSE, timestamp |-> 1]
    /\ Before.lastProcessedGameControl = [action |-> RESUME, timestamp |-> 2]
    /\ Before.game.status = PLAYING
    /\ game.status = PLAYING

\* C7: delivering again the GAME_CONTROL message that was processed last
\* (same action, same timestamp) changes neither the game, nor the armed
\* timers, and sends nothing.
C7_DuplicateControlNoOp ==
    ( ControlReceived /\ Before.lastProcessedGameControl = event.msg )
    => /\ game = Before.game
       /\ sent = <<>>

\* C8: while the status is not COUNTDOWN no countdown or failsafe timer is
\* armed.
C8_NoTimerOutsideCountdown ==
    game.status # COUNTDOWN => game.timers = NoTimers

\* C9: with the game loop stalled, the connection unchanged and no snapshot
\* arriving, a game in COUNTDOWN reaches PLAYING as long as armed timers fire.
C9_StallRecovery ==
    (game.status = COUNTDOWN) ~> (game.status = PLAYING)

Ticked == Handled("update") /\ event.msg.steps = 1

FullSecond == Before.game.countdownTimer + 1 >= TicksPerSecond

HostStarted ==
    /\ Handled("startGame")
    /\ Before.isHost
    /\ Before.isNetworkGame => Before.connectionStatus = CONNECTED

\* a START control message that is neither stale nor within the 2000 ms guard
StartReceived ==
    /\ ControlReceived
    /\ event.msg.action = START
    /\ event.msg.timestamp >= Before.lastProcessedGameControl.timestamp
    /\ ~Before.isStarting

\* C11: a peer in WAITING_FOR_OPPONENT that starts the game locally as host,
\* or receives a START control message, is afterwards in COUNTDOWN with
\* countdown 3, the ball at the field centre and both paddles at mid height.
C11_StartEntersCountdown ==
    ( (HostStarted \/ StartReceived) /\ Before.game.status = WAITING )
    => /\ game.status = COUNTDOWN
       /\ game.countdown = 3
       /\ game.ball.position = Center
       /\ game.playerPaddle.position.y = FieldHeight \div 2
       /\ game.opponentPaddle.position.y = FieldHeight \div 2

\* the lifecycle edges of section 4.5
LifecycleEdges ==
    {<<WAITING, COUNTDOWN>>, <<COUNTDOWN, PLAYING>>, <<PLAYING, PAUSED>>,
     <<PAUSED, PLAYING>>, <<PLAYING, GAME_OVER>>}

Restarted ==
    \/ Handled("restartGame")
    \/ ControlReceived /\ event.msg.action = RESTART

Disconnected == Handled("statusChange") /\ event.msg = DISCONNECTED

\* C12: on the host every handler that changes the status takes a lifecycle
\* edge, or is a restart ending in COUNTDOWN, or is a disconnect ending in
\* WAITING_FOR_OPPONENT; so pause acts only in PLAYING, resume only in
\* PAUSED, and a START never takes PAUSED or GAME_OVER to COUNTDOWN.
C12_HostLifecycleEdges ==
    ( ~Idle /\ Before.isHost /\ game.status # Before.game.status )
    => \/ <<Before.game.status, game.status>> \in LifecycleEdges
       \/ Restarted /\ game.status = COUNTDOWN
       \/ Disconnected /\ game.status = WAITING

\* the control action a handler stands for, "none" for other handlers
ControlActionOf ==
    CASE Handled("startGame") -> START
      [] Handled("pauseGame") -> PAUSE
      [] Handled("resumeGame") -> RESUME
      [] Handled("restartGame") -> RESTART
      [] ControlReceived -> event.msg.action
      [] OTHER -> "none"

\* C13: in a network game, startGame, pauseGame, resumeGame, restartGame and
\* the GAME_CONTROL handler leave a client's Game (status, scores, entities,
\* timers) and its game loop as they were, and hand the transport at most
\* one message, a GAME_CONTROL request of the same action.
C13_ClientOnlyRequests ==
    ( /\ ControlActionOf # "none"
      /\ ~Before.isHost
      /\ Before.isNetworkGame )
    => /\ game = Before.game
       /\ gameLoopRunning = Before.gameLoopRunning
       /\ Len(sent) <= 1
       /\ \A i \in 1..Len(sent) :
              sent[i].type = GAME_CONTROL /\ sent[i].action = ControlActionOf

\* a client in PLAYING processed a PAUSE control message: it still plays and
\* has handed a PAUSE request to the transport
C13_Witness ==
    /\ ControlReceived
    /\ event.msg.action = PAUSE
    /\ ~Before.isHost
    /\ Before.isNetworkGame
    /\ Before.game.status = PLAYING
    /\ game.status = PLAYING
    /\ Len(sent) = 1

\* a frame ran fixed ticks on a game that was in PLAYING
PlayedTick == Handled("update") /\ event.msg.steps > 0 /\ Before.game.status = PLAYING

\* C14: after a frame that ticked in PLAYING and ends with a score at or
\* above config.winningScore the status is GAME_OVER and the winner is that
\* side, 'player' first; on the host GAME_OVER is entered only by such a
\* tick, and no score of the host exceeds winningScore.
C14_GameOver ==
    /\ ( /\ PlayedTick
         /\ \/ game.playerScore >= game.config.winningScore
            \/ game.opponentScore >= game.config.winningScore )
       => /\ game.status = GAME_OVER
          /\ game.winner = IF game.playerScore >= game.config.winningScore
                           THEN "player" ELSE "opponent"
    /\ ( ~Idle /\ Before.isHost /\ game.status = GAME_OVER
               /\ Before.game.status # GAME_OVER )
       => /\ PlayedTick
          /\ \/ game.playerScore >= game.config.winningScore
             \/ game.opponentScore >= game.config.winningScore
    /\ isHost => /\ game.playerScore <= game.config.winningScore
                 /\ game.opponentScore <= game.config.winningScore

\* a tick on the host brought a score to winningScore and ended the match
C14_Witness ==
    /\ PlayedTick
    /\ Before.isHost
    /\ Before.game.playerScore < Before.game.config.winningScore
    /\ Before.game.opponentScore < Before.game.config.winningScore
    /\ game.status = GAME_OVER
    /\ game.winner # NoWinner

\* C15: in every state, the snapshot getState produces carries a countdown
\* only when the status is COUNTDOWN and a winner only when the status is
\* GAME_OVER, and the Game's own winner is null outside GAME_OVER.
C15_CountdownWinnerValidity ==
    LET state == getState(game)
    IN  /\ state.countdown # <<>> => state.status = COUNTDOWN
        /\ state.winner # NoWinner => state.status = GAME_OVER
        /\ game.winner # NoWinner => game.status = GAME_OVER

\* C16: a call of Game.update runs at most 5 fixed ticks, whatever the time
\* since the last call, and leaves less than one fixed step in the
\* accumulator: the time it did not tick away beyond that is dropped.
C16_BoundedCatchUp ==
    Handled("update")
    => /\ event.msg.steps <= 5
       /\ event.msg.steps * StepParts <= Before.game.accumulator + event.msg.elapsed
       /\ game.accumulator >= 0
       /\ game.accumulator < StepParts

\* a frame after more than the 0.1 s cap ran 5 ticks of a game in play and
\* dropped the rest of the time
C16_Witness ==
    /\ Handled("update")
    /\ event.msg.elapsed > CappedDeltaSteps * StepParts
    /\ Before.game.status = PLAYING
    /\ Before.game.accumulator > 0
    /\ event.msg.steps = 5
    /\ game.accumulator = 0

\* C17: once the client has applied a snapshot, the delivery of a snapshot
\* with an earlier host timestamp changes neither the client's status nor
\* its scores.
C17_OlderSnapshotIgnored ==
    (/\ ClientReceived
     /\ Before.lastAppliedSnapshot > 0
     /\ event.msg.timestamp < Before.lastAppliedSnapshot)
    => /\ game.status = Before.game.status
       /\ game.playerScore = Before.game.playerScore
       /\ game.opponentScore = Before.game.opponentScore

\* C18: the GAME_STATE and PADDLE_MOVE callbacks leave the Game as it was;
\* the Game changes only in the update that follows.
C18_CallbackLeavesGame ==
    (Handled(GAME_STATE) \/ Handled(PADDLE_MOVE)) => game = Before.game

\* C19: a connected client in WAITING_FOR_OPPONENT that receives a host
\* snapshot with another status has that status and a running game loop when
\* the handler returns, whether or not a START ever arrived.
C19_SnapshotLeavesWaiting ==
    (/\ ClientReceived
     /\ Before.connectionStatus = CONNECTED
     /\ Before.game.status = WAITING
     /\ Received.status # WAITING)
    => /\ game.status = Received.status
       /\ gameLoopRunning

\* the client that never handled a START and whose loop was not running is
\* put into PLAYING by a snapshot
C19_Witness ==
    /\ ClientReceived
    /\ Before.connectionStatus = CONNECTED
    /\ Before.game.status = WAITING
    /\ Before.lastProcessedGameControl = NoControl
    /\ ~Before.gameLoopRunning
    /\ Received.status = PLAYING
    /\ game.status = PLAYING
    /\ gameLoopRunning

\* the snapshots handed to the transport by the running handler
SnapshotsSent == {i \in 1..Len(sent) : sent[i].type = GAME_STATE}

\* C20: a frame of the host of a network game that ends in COUNTDOWN, PLAYING
\* or GAME_OVER hands a snapshot with that status to the transport, also
\* within syncInterval of the last one.
C20_ImportantStateSent ==
    (/\ Handled("update")
     /\ Before.isHost
     /\ Before.isNetworkGame
     /\ game.status \in {COUNTDOWN, PLAYING, GAME_OVER})
    => \E i \in SnapshotsSent : sent[i].action = game.status

\* a throttled frame in which the game ended sent the GAME_OVER snapshot
C20_Witness ==
    /\ Handled("update")
    /\ Before.isHost
    /\ Before.isNetworkGame
    /\ event.msg.throttled
    /\ Before.game.status = PLAYING
    /\ game.status = GAME_OVER
    /\ \E i \in SnapshotsSent : sent[i].action = GAME_OVER

\* C21: in a status that is not important the host withholds a snapshot
\* only if a send succeeded less than syncInterval before; an attempt the
\* transport refused does not restart the window.
C21_ThrottleFromLastSuccess ==
    (syncCall.op = "syncGameState" /\ ~syncCall.attempted)
    => /\ syncCall.state.status \in {WAITING, PAUSED}
       /\ syncCall.log.lastSuccess.sent
       /\ syncCall.timestamp - syncCall.log.lastSuccess.at < SyncInterval

\* C22: a peer that is not host hands no GAME_STATE message to the
\* transport, whatever handler runs, and a host that receives a GAME_STATE
\* message leaves its game as it was.
C22_SnapshotsFlowHostToClient ==
    /\ (~Idle /\ ~Before.isHost) => SnapshotsSent = {}
    /\ (Handled(GAME_STATE) /\ Before.isHost)
       => game = Before.game /\ gameLoopRunning = Before.gameLoopRunning

\* a frame of a client in a network game sent its input and no snapshot
C22_Witness ==
    /\ Handled("update")
    /\ ~Before.isHost
    /\ Before.isNetworkGame
    /\ ~event.msg.throttled
    /\ \E i \in 1..Len(sent) : sent[i].type = PADDLE_MOVE
    /\ SnapshotsSent = {}

\* C23: on the host a PADDLE_MOVE message sets the opponent paddle's two
\* movement flags from the message and changes nothing else of the game; a
\* peer that is not host leaves its game as it was.
C23_PaddleMoveSetsIntent ==
    Handled(PADDLE_MOVE)
    => IF Before.isHost
       THEN /\ game.opponentPaddle.isMovingUp = event.msg.up
            /\ game.opponentPaddle.isMovingDown = event.msg.down
            /\ game.opponentPaddle.position = Before.game.opponentPaddle.position
            /\ game.playerPaddle = Before.game.playerPaddle
            /\ game.ball = Before.game.ball
            /\ game.playerScore = Before.game.playerScore
            /\ game.opponentScore = Before.game.opponentScore
            /\ game.status = Before.game.status
            /\ game.countdown = Before.game.countdown
            /\ game.winner = Before.game.winner
       ELSE game = Before.game

\* the host in play, its opponent paddle already moved off centre, takes a
\* new intent from a message
C23_Witness ==
    /\ Handled(PADDLE_MOVE)
    /\ Before.isHost
    /\ Before.game.status = PLAYING
    /\ Before.game.opponentPaddle.position.y # FieldHeight \div 2
    /\ Before.game.opponentPaddle.isMovingDown
    /\ event.msg.up
    /\ ~event.msg.down
    /\ game.opponentPaddle.isMovingUp
    /\ ~game.opponentPaddle.isMovingDown

\* the last n items of a sequence, or all of it
LastOf(seq, n) == SubSeq(seq, Max(1, Len(seq) - n + 1), Len(seq))

C25_ConnectionFailureForcesWaiting ==
    (Handled("statusChange") /\ event.msg \in {DISCONNECTED, ERROR})
    => game.status = WAITING

\* C26: a callback of the game loop begins only while the loop is running,
\* so none after stop() until start() is called again; at most one callback
\* is pending at any time, also after repeated start(); stop() cancels the
\* pending callback and lets the running one go on to its end.
C26_OneCallbackChain ==
    /\ Cardinality(gameLoop.pending) <= 1
    /\ ~gameLoop.isRunning => gameLoop.pending = {}
    /\ loopCall.op = "frame" => loopCall.pre.isRunning
    /\ loopCall.op = "stop" => gameLoop.running = loopCall.pre.running
    /\ (loopCall.op = "start" /\ loopCall.pre.isRunning) => gameLoop = loopCall.pre

\* stop() called from inside a callback cancelled the frame that callback
\* had requested, and the callback is still running
C26_Witness ==
    /\ loopCall.op = "stop"
    /\ loopCall.pre.running = "update"
    /\ loopCall.pre.pending # {}
    /\ gameLoop.pending = {}
    /\ ~gameLoop.isRunning
    /\ gameLoop.running = "update"

\* the boundary the main ball has crossed when the tick comes to checkScoring
Crossed == checkScoringBoundary(beforeScoring(Before.game).ball, 0, FieldWidth)

\* the paddle at the boundary that was crossed, and the score of the other side
Conceding ==
    IF (Crossed = "left") = (Before.game.role = HOST) THEN "playerPaddle" ELSE "opponentPaddle"

\* C27: a tick in which the main ball crosses the left or right boundary
\* adds exactly 1 to the score of the side opposite to that boundary and
\* leaves the other score alone, puts the ball at the centre with a serve
\* velocity, clears the additional balls and sets the conceding paddle's
\* consecutive hits to 0; a tick without such a crossing changes no score.
C27_OneScorePerCrossing ==
    (Ticked /\ Before.game.status = PLAYING)
    => IF Crossed = "none"
       THEN /\ game.playerScore = Before.game.playerScore
            /\ game.opponentScore = Before.game.opponentScore
       ELSE /\ game.playerScore = Before.game.playerScore
                                  + (IF Conceding = "opponentPaddle" THEN 1 ELSE 0)
            /\ game.opponentScore = Before.game.opponentScore
                                    + (IF Conceding = "playerPaddle" THEN 1 ELSE 0)
            /\ game.ball.position = Center
            /\ Abs(game.ball.velocity.x) = game.config.ballSpeed
            /\ game.additionalBalls = <<>>
            /\ game.consecutiveHits[Conceding] = 0

\* the client's main ball crossed the left boundary while the client's
\* opponent paddle had a hit to its name and a further ball was in play
C27_Witness ==
    /\ Ticked
    /\ Before.game.status = PLAYING
    /\ Before.game.role = CLIENT
    /\ Crossed = "left"
    /\ Before.game.consecutiveHits.opponentPaddle > 0
    /\ Before.game.additionalBalls # <<>>
    /\ game.playerScore = Before.game.playerScore + 1
    /\ game.consecutiveHits.opponentPaddle = 0
    /\ game.additionalBalls = <<>>

\* the additional balls that have crossed a boundary when the tick comes to
\* checkScoring
CrossedAdditional ==
    LET balls == beforeScoring(Before.game).additionalBalls
    IN  {i \in 1..Len(balls) : checkScoringBoundary(balls[i], 0, FieldWidth) # "none"}

\* C28: a tick in which an additional ball crosses a scoring boundary and
\* the main ball does not removes that ball, keeps the others, changes no
\* score and does not reset the main ball.
C28_AdditionalBallOnlyRemoved ==
    (Ticked /\ Before.game.status = PLAYING /\ Crossed = "none" /\ CrossedAdditional # {})
    => LET moved == beforeScoring(Before.game)
           NotScored(b) == checkScoringBoundary(b, 0, FieldWidth) = "none"
       IN  /\ game.playerScore = Before.game.playerScore
           /\ game.opponentScore = Before.game.opponentScore
           /\ game.status = PLAYING
           /\ game.ball = moved.ball
           /\ game.additionalBalls = SelectSeq(moved.additionalBalls, NotScored)
           /\ Len(game.additionalBalls) < Len(Before.game.additionalBalls)

\* of two additional balls the one that crossed the right boundary is gone,
\* the other and the main ball are still in play
C28_Witness ==
    /\ Ticked
    /\ Before.game.status = PLAYING
    /\ Crossed = "none"
    /\ Len(Before.game.additionalBalls) = 2
    /\ Cardinality(CrossedAdditional) = 1
    /\ Len(game.additionalBalls) = 1
    /\ game.ball.position # Center
    /\ game.playerScore = 0
    /\ game.opponentScore = 0

\* C29: between two serves a paddle hit leaves speedScaleFactor at or above
\* its value after the previous hit, whatever the random part; the factor is
\* never above the maximum scale of 2.2; a serve sets it to 1.0 and the hit
\* counter to 0.
C29_SpeedScaleMonotone ==
    /\ rally.speedScaleFactor <= MaxSpeedScale
    /\ rallyCall.op = "hit" => rally.speedScaleFactor >= rallyCall.previousHit
    /\ rallyCall.op = "serve" => rally = [hitCounter |-> 0, speedScaleFactor |-> ScaleUnit]

\* C30: applying a snapshot whose optional fields are absent never fails: an
\* absent winner leaves the game without winner, absent additional balls
\* leave the list empty, and every other optional value (countdown, rebound
\* flags) stays at a defined value.
Applied ==
    IF event.msg.needsReconciliation THEN Received
    ELSE mergedState(getState(Before.game), Received)

C30_AbsentFieldsDecodeToDefaults ==
    (Handled(GAME_STATE) /\ ~Before.isHost /\ Applied.absent # {}) =>
        /\ ~Has(Applied, "winner") => game.winner = NoWinner
        /\ ~Has(Applied, "additionalBalls") => game.additionalBalls = <<>>
        /\ game.winner \in {NoWinner, "player", "opponent"}
        /\ game.playerPaddle.isRebounding \in BOOLEAN
        /\ game.opponentPaddle.isRebounding \in BOOLEAN
        /\ game.countdown \in -MaxOvershoot - 1..InitialCountdown
        /\ game.status \in GameStatus

\* C31: whenever the status is PLAYING the main ball has a non-zero
\* velocity, whatever operation led there.
C31_PlayingBallMoves ==
    game.status = PLAYING => game.ball.velocity # Vec(0, 0)

\* C32: restartGame on the host or outside a network game, from any status,
\* starts a fresh match: COUNTDOWN at 3, both scores 0, no winner, no
\* additional balls, and a failsafe timer armed.
C32_RestartStartsFreshMatch ==
    (Handled("restartGame") /\ (Before.isHost \/ ~Before.isNetworkGame)) =>
        /\ game.status = COUNTDOWN
        /\ game.countdown = InitialCountdown
        /\ game.playerScore = 0
        /\ game.opponentScore = 0
        /\ game.winner = NoWinner
        /\ game.additionalBalls = <<>>
        /\ game.timers["failsafe"] > 0

\* C33: one user-initiated control action causes only finitely many
\* GAME_CONTROL messages (from some point on none is in flight), and the
\* host applies the action to its game at most once.
Quiet == \A role \in Roles : session.wire[role] = <<>>

C33_ControlActionSettles == [](session.applied <= 1) /\ <>[]Quiet

\* C34: after a client whose Game has role CLIENT applies a host snapshot,
\* its playerPaddle is still the right-hand paddle and its playerScore is
\* the right-hand player's points, the host's opponentScore.
C34_ClientKeepsOwnSide ==
    (Handled(GAME_STATE) /\ ~Before.isHost /\ Before.game.role = CLIENT) =>
        /\ game.playerPaddle.position.x = RightPaddleX
        /\ game.playerScore = Received.opponentScore

\* C35: on a client in a network game the prediction ticks of update never
\* change a score or the winner and never move the game to GAME_OVER.
C35_ClientTicksKeepScore ==
    (Handled("update") /\ ~Before.isHost /\ Before.isNetworkGame) =>
        /\ game.playerScore = Before.game.playerScore
        /\ game.opponentScore = Before.game.opponentScore
        /\ game.winner = Before.game.winner
        /\ game.status = GAME_OVER => Before.game.status = GAME_OVER

\* C36: the fixed-step countdown and the failsafe timer never both count the
\* same second: PLAYING is not entered earlier than 3 seconds after the
\* countdown began at 3.
C36_CountdownTakesThreeSeconds ==
    race.game.status = PLAYING => race.time >= InitialCountdown * TicksPerSecond

\* C37: at most one countdown or failsafe timer is armed per Game at any
\* time; arming a new one cancels the one before.
ArmedTimers(g) == g.timers["decrement"] + g.timers["failsafe"]

C37_OneTimerArmed == ArmedTimers(game) <= 1

\* the failsafe chain has re-armed itself, or a start has replaced the
\* decrement timer by the failsafe timer
C37_Witness ==
    /\ ArmedTimers(game) = 1
    /\ \/ Handled("timer") /\ ArmedTimers(Before.game) = 1
       \/ Handled("startGame") /\ ArmedTimers(Before.game) = 0

\* C38: in WAITING_FOR_OPPONENT or PAUSED the host's update loop transmits a
\* snapshot at least once per syncInterval of elapsed time, also after a
\* sync from the ping or connection handler: a call of the update loop made
\* syncInterval or more after the last transmission is not withheld.
C38_HostKeepsBroadcasting ==
    (/\ syncCall.op = "syncGameState"
     /\ syncCall.state.status \in {WAITING, PAUSED}
     /\ syncCall.timestamp - syncCall.log.lastAttempt.at >= SyncInterval)
    => syncCall.attempted

\* C39: GameManager.isHost is true exactly when the role its Game was
\* constructed with is HOST, also after initializeHost() and joinGame().
C39_IsHostAgreesWithRole == isHost <=> game.role = HOST

\* C40: a fixed tick in WAITING_FOR_OPPONENT, PAUSED or GAME_OVER changes
\* nothing; a fixed tick in COUNTDOWN changes only the countdown value, its
\* timer and, on completion, the status and the served ball.
OneTick == Handled("update") /\ event.msg.steps = 1

Untouched(g, h) ==
    /\ g.playerPaddle = h.playerPaddle
    /\ g.opponentPaddle = h.opponentPaddle
    /\ g.playerScore = h.playerScore
    /\ g.opponentScore = h.opponentScore
    /\ g.winner = h.winner
    /\ g.additionalBalls = h.additionalBalls
    /\ g.consecutiveHits = h.consecutiveHits
    /\ g.config = h.config

C40_TickFrame ==
    OneTick =>
        /\ Before.game.status \in {WAITING, PAUSED, GAME_OVER} =>
              game = [Before.game EXCEPT !.accumulator = game.accumulator]
        /\ Before.game.status = COUNTDOWN =>
              /\ Untouched(game, Before.game)
              /\ game.status \in {COUNTDOWN, PLAYING}
              /\ game.status = COUNTDOWN => game.ball = Before.game.ball

====
